---- MODULE Spec2Model ----
(***************************************************************************)
(* Kids-game: the screen / resource lifecycle of app.js (class App), with  *)
(* its collaborators LoadingScreen, PopUp, Game (base class of the four    *)
(* mini-games), helpers.js (unloadCSS, getCurrentGameCssPath) and          *)
(* errorHandler.js (handleError).                                          *)
(*                                                                         *)
(* The browser is single threaded.  Every async function is a process      *)
(* whose position is a pc; "aw" says what it is suspended on.  A process   *)
(* whose await has settled (aw = "ready" or "rejected") is in the          *)
(* microtask queue mq and resumes in queue order: user events, timers,     *)
(* animation frames and network completions (macrotasks) only run when     *)
(* the queue is empty.                                                     *)
(*                                                                         *)
(* A path or URL is a sequence of tokens; "/" and " " are tokens of their  *)
(* own, so trimming, slash stripping and String.includes are computed on   *)
(* the token sequence.                                                     *)
(***************************************************************************)
EXTENDS Integers, Sequences, FiniteSets, TLC

\* ------------------------------------------------------------------ bounds
MaxCalls == 4
NumGames == 2
MaxTrackerOps == 3

\* --------------------------------------------------------------- registry
\* gameModules/generatedGames.js as written by generateGames.js: one entry per
\* sub-directory of games/, in directory order.
GameIds == << "game1", "game2", "game3", "game4" >>

generatedGames == [i \in 1..NumGames |-> GameIds[i]]

\* `import { games } from './gameModules/generatedGames.js'`: the keys of the
\* registry the page was built with, in Object.keys order; never assigned again
VARIABLE games

Games == {games[i] : i \in 1..Len(games)}

Unknown == "unknown-game"

Home == "home"

style(g) == << "games", "/", g, "/", g, ".css" >>

script(g) == << ".", "/", "games", "/", g, "/", g, ".js" >>

StyleCss == << "style.css" >>

LoadingCss == << "components", "/", "loadingScreen", "/", "loadingScreen.css" >>

PopUpCss == << "components", "/", "popUp", "/", "popUp.css" >>

\* ------------------------------------------------------------ path algebra
\* String.prototype.trim
RECURSIVE TrimLeft(_)
TrimLeft(p) == IF p # << >> /\ Head(p) = " " THEN TrimLeft(Tail(p)) ELSE p

RECURSIVE TrimRight(_)
TrimRight(p) ==
    IF p # << >> /\ p[Len(p)] = " " THEN TrimRight(SubSeq(p, 1, Len(p) - 1)) ELSE p

Trim(p) == TrimRight(TrimLeft(p))

\* .replace(/^\//, ''): one leading slash
StripLeadingSlash(p) == IF p # << >> /\ Head(p) = "/" THEN Tail(p) ELSE p

\* the /\/$/ alternative of the same regular expression (g flag): one trailing slash
StripTrailingSlash(p) ==
    IF p # << >> /\ p[Len(p)] = "/" THEN SubSeq(p, 1, Len(p) - 1) ELSE p

NormalizeMutNoStrip(p) == Trim(p)

\* cssPath.trim().replace(/^\/|\/$/g, '')
Normalize(p) == StripTrailingSlash(StripLeadingSlash(Trim(p)))

\* link.href: the browser resolves the attribute against the document's base URL
Origin == << "origin" >>

Href(p) == IF p # << >> /\ Head(p) = "/" THEN Origin \o p ELSE Origin \o << "/" >> \o p

\* String.prototype.includes on token sequences
Includes(s, t) ==
    \E i \in 0..(Len(s) - Len(t)) : SubSeq(s, i + 1, i + Len(t)) = t

EndsWithCss(s) == s # << >> /\ (s[Len(s)] = ".css" \/ s[Len(s)] \in {"style.css", "loadingScreen.css", "popUp.css"})

StartsWithGame(t) == t = "games" \/ t \in {GameIds[i] : i \in 1..Len(GameIds)}

\* href.includes('/game')
IncludesSlashGame(s) ==
    \E i \in 1..(Len(s) - 1) : s[i] = "/" /\ StartsWithGame(s[i + 1])

Reverse(s) == [i \in 1..Len(s) |-> s[Len(s) + 1 - i]]

\* ------------------------------------------------------------------- state
VARIABLES
    head,       \* document.head: the <link> elements in document order, [id, path, st]
    loadedCSS,  \* App.loadedCSS
    body,       \* document.body: the screen markup and the elements appended to it
    ls,         \* the LoadingScreen objects: 0 is App.loadingScreen, c is Game c's
    popUp,      \* the PopUp singleton
    reports,    \* what handleError was called with, in order
    helpers,    \* which of the repository's two helpers.js files is deployed
    initPc,     \* App.init
    calls,      \* the invocations of App.loadScreen
    insts,      \* the game objects; instance c is the one created by invocation c
    ops,        \* the direct calls of the exported ensureCSS / unloadCSS, in order
    mq,         \* the microtask queue: the continuations whose await has settled
    location,   \* window.location.href: "app" as loaded, "/" once handleError navigated away
    sounds,     \* soundManager.sounds: the identifiers of the sounds that are loaded
    timers      \* the pending auto-dismiss timers of the error banner: [report, container]

vars == << games, head, loadedCSS, body, ls, popUp, reports, helpers, initPc, calls, insts,
          ops, mq, location, sounds, timers >>

CallIds == 1..MaxCalls

App == 0

Owners == {App} \cup CallIds

\* the part of the state the synchronous helpers read and write
World ==
    [head |-> head, loadedCSS |-> loadedCSS, body |-> body, ls |-> ls,
     popUp |-> popUp, reports |-> reports, location |-> location, sounds |-> sounds,
     timers |-> timers]

Commit(w) ==
    /\ head' = w.head
    /\ loadedCSS' = w.loadedCSS
    /\ body' = w.body
    /\ ls' = w.ls
    /\ popUp' = w.popUp
    /\ reports' = w.reports
    /\ location' = w.location
    /\ sounds' = w.sounds
    /\ timers' = w.timers

\* ---------------------------------------------------------------- document
NoListeners == [g \in Games |-> 0]

\* document.body.innerHTML = ...: every former child of the body is detached
setInnerHTML(w, kind, inst, floors) ==
    [w EXCEPT !.body =
        [screen |-> [kind |-> kind, inst |-> inst], floors |-> floors,
         listeners |-> NoListeners, back |-> {}, placeholders |-> 0,
         ls |-> {}, popup |-> {}, banner |-> FALSE, bannerId |-> 0]]

InitialBody ==
    [screen |-> [kind |-> "initial", inst |-> 0], floors |-> << >>,
     listeners |-> NoListeners, back |-> {}, placeholders |-> 0,
     ls |-> {}, popup |-> {}, banner |-> FALSE, bannerId |-> 0]

\* ------------------------------------------------------------ errorHandler
\* showUserFriendlyError: one #error-container, created when the document has none
\* (the new element is named after the report it is made for); the message
\* replaces the container's content, and a timer is armed that removes this
\* container five seconds later
showUserFriendlyError(w) ==
    LET container == IF w.body.banner THEN w.body.bannerId ELSE Len(w.reports)
    IN  [w EXCEPT !.body.banner = TRUE, !.body.bannerId = container,
                  !.timers = @ \cup {[report |-> Len(w.reports), container |-> container]}]

\* the timer's callback: `if (errorContainer.parentNode) errorContainer.remove()`
bannerTimeout(w, t) ==
    IF w.body.banner /\ w.body.bannerId = t.container
    THEN [w EXCEPT !.body.banner = FALSE, !.body.bannerId = 0, !.timers = @ \ {t}]
    ELSE [w EXCEPT !.timers = @ \ {t}]

\* the banner's button: onclick="this.parentElement.remove()"
bannerClose(w) == [w EXCEPT !.body.banner = FALSE, !.body.bannerId = 0]

\* handleError without its fallback: the log entry and the banner
handleErrorMutSilent(w, kind, ctx, by) == w

handleError(w, kind, ctx, by) ==
    showUserFriendlyError(
        [w EXCEPT !.reports = Append(@, [kind |-> kind, ctx |-> ctx, by |-> by])])

\* ------------------------------------------------------------ soundManager
\* SoundManager.loadSound: a no-op for an identifier that is loaded
loadSound(w, id) == [w EXCEPT !.sounds = @ \cup {id}]

\* Game.destroy: this.sounds.forEach(id => soundManager.unload(id)), and
\* SoundManager.unload deletes the identifier when it is loaded
unloadSounds(w, ids) == [w EXCEPT !.sounds = @ \ ids]

\* the sounds the startGame of a game loads, all through soundManager.loadSound
\* itself and none through Game.loadSound, which alone fills this.sounds
GameSounds(g) ==
    IF g = "game3" THEN {"game3Sounds"} ELSE IF g = "game4" THEN {"game4Sounds"} ELSE {}

loadGameSounds(w, g) == [w EXCEPT !.sounds = @ \cup GameSounds(g)]

\* ----------------------------------------------------------- LoadingScreen
NoLS == [element |-> FALSE, isHiding |-> FALSE, progress |-> -1, message |-> << >>]

\* LoadingScreen.show: a no-op while this.element is set
show(w, o, message) ==
    IF w.ls[o].element THEN w
    ELSE [w EXCEPT !.ls[o] = [element |-> TRUE, isHiding |-> @.isHiding, progress |-> -1,
                              message |-> message],
                   !.body.ls = @ \cup {o}]

\* the messages of the code, by what they announce
DefaultMessage == << "loading" >>

\* LoadingScreen.updateMessage: a no-op without this.messageElement
updateMessage(w, o, message) ==
    IF w.ls[o].element THEN [w EXCEPT !.ls[o].message = message] ELSE w

\* JavaScript numbers are IEEE-754 binary64: a 53-bit significand, kept here as four
\* limbs of 1-8, 18, 18 and 16 bits (most significant first) with the value
\* m * 2^(-52 - e), and every operation rounded to nearest, ties to even
RECURSIVE Exponent(_, _)
Exponent(n, t) == IF n >= t THEN 0 ELSE 1 + Exponent(2 * n, t)

\* current / total for 0 < current <= total
Divide(current, total) ==
    LET e == Exponent(current, total)
        r0 == (current * (2^e)) - total
        d1 == (r0 * (2^18)) \div total
        r1 == (r0 * (2^18)) % total
        d2 == (r1 * (2^18)) \div total
        r2 == (r1 * (2^18)) % total
        d3 == (r2 * (2^16)) \div total
        r3 == (r2 * (2^16)) % total
        up == IF 2 * r3 > total \/ (2 * r3 = total /\ (d3 % 2) = 1) THEN 1 ELSE 0
        s3 == d3 + up
        s2 == d2 + (s3 \div (2^16))
        s1 == d1 + (s2 \div (2^18))
    IN  [e |-> e, m |-> << 1 + (s1 \div (2^18)), s1 % (2^18), s2 % (2^18), s3 % (2^16) >>]

\* q * 100
Times100(q) ==
    LET x3 == q.m[4] * 100
        x2 == (q.m[3] * 100) + (x3 \div (2^16))
        x1 == (q.m[2] * 100) + (x2 \div (2^18))
        x0 == (q.m[1] * 100) + (x1 \div (2^18))
        s == IF x0 >= 128 THEN 7 ELSE 6
        kept == (x3 % (2^16)) \div (2^s)
        dropped == (x3 % (2^16)) % (2^s)
        up == IF dropped > 2^(s - 1) \/ (dropped = 2^(s - 1) /\ (kept % 2) = 1) THEN 1 ELSE 0
        k3 == kept + up
        k2 == (x2 % (2^18)) + (k3 \div (2^(16 - s)))
        k1 == (x1 % (2^18)) + (k2 \div (2^18))
    IN  [e |-> q.e,
         m |-> << x0 + (k1 \div (2^18)), k1 % (2^18), k2 % (2^18),
                   (k3 % (2^(16 - s))) * (2^s) >>]

\* Math.round: the nearest integer, a tie going up
MathRound(p) ==
    IF p.e = 0 THEN p.m[1] + (p.m[2] \div (2^17))
    ELSE (p.m[1] \div (2^(p.e))) + ((p.m[1] \div (2^(p.e - 1))) % 2)

\* Math.round((current / total) * 100) for 0 <= current <= total, total > 0
Percentage(current, total) ==
    IF current = 0 THEN 0 ELSE MathRound(Times100(Divide(current, total)))

updateProgress(w, o, current, total) ==
    IF w.ls[o].element THEN [w EXCEPT !.ls[o].progress = Percentage(current, total)] ELSE w

hideMutNoGuard(w, o) == [w EXCEPT !.ls[o].isHiding = TRUE]

\* LoadingScreen.hide up to its setTimeout: marks the object as hiding
hide(w, o) ==
    IF w.ls[o].isHiding \/ ~w.ls[o].element THEN w
    ELSE [w EXCEPT !.ls[o].isHiding = TRUE]

\* whether hide(w, o) schedules the removal (and so resolves only when it ran)
hideSchedules(w, o) == ~w.ls[o].isHiding /\ w.ls[o].element

\* the setTimeout callback of hide
hideTimeout(w, o) ==
    [w EXCEPT !.ls[o] = NoLS, !.body.ls = @ \ {o}]

\* ------------------------------------------------------------------ App CSS
LinkIdsInUse(w, awaited) == {w.head[i].id : i \in 1..Len(w.head)} \cup awaited

FreshId(w, awaited) ==
    CHOOSE i \in 1..(Cardinality(LinkIdsInUse(w, awaited)) + 1) :
        /\ i \notin LinkIdsInUse(w, awaited)
        /\ \A j \in 1..(i - 1) : j \in LinkIdsInUse(w, awaited)

\* the existingLink search of ensureCSS
existingLink(w, np) == \E i \in 1..Len(w.head) : Includes(Href(w.head[i].path), np)

ensureCSSMutAlwaysAppend(w, cssPath, awaited) ==
    [w |-> [w EXCEPT !.head = Append(@, [id |-> FreshId(w, awaited), path |-> Normalize(cssPath),
                                         st |-> "loading"])],
     aw |-> "link", lk |-> FreshId(w, awaited)]

\* App.ensureCSS up to its await: [w, aw, lk].  aw = "ready": the call returns
\* without waiting; aw = "link": it waits for the load or error event of link lk.
ensureCSS(w, cssPath, awaited) ==
    LET np == Normalize(cssPath) IN
    IF np \in w.loadedCSS THEN [w |-> w, aw |-> "ready", lk |-> 0]
    ELSE IF existingLink(w, np) THEN [w |-> w, aw |-> "ready", lk |-> 0]
    ELSE LET id == FreshId(w, awaited) IN
         [w |-> [w EXCEPT !.head = Append(@, [id |-> id, path |-> np, st |-> "loading"])],
          aw |-> "link", lk |-> id]

\* App.untrackCSS
untrackCSS(w, cssPath) == [w EXCEPT !.loadedCSS = @ \ {cssPath}]

\* ------------------------------------------------------------------ helpers
\* the filename the links are matched against and untrackCSS is called with
unloadName(h, filename) == IF h = "documented" THEN StripLeadingSlash(filename) ELSE filename

unloadMatch(href, name) == Includes(href, name)

\* helpers.unloadCSS
unloadCSS(w, h, filename, by) ==
    IF filename = << >>
    THEN handleError(w, "RESOURCE", "helpers.unloadCSS", by)
    ELSE LET name == unloadName(h, filename)
             found == \E i \in 1..Len(w.head) : unloadMatch(Href(w.head[i].path), name)
             w1 == [w EXCEPT !.head = SelectSeq(@, LAMBDA l : ~unloadMatch(Href(l.path), name))]
         IN  IF found THEN untrackCSS(w1, name)
             ELSE IF h = "documented" THEN w
             ELSE handleError(w, "RESOURCE", "helpers.unloadCSS", by)

\* helpers.getCurrentGameCssPath: << >> stands for null
GameCssLinks(w) ==
    SelectSeq(w.head, LAMBDA l : IncludesSlashGame(Href(l.path)) /\ EndsWithCss(Href(l.path)))

FromFirstGamePart(s) ==
    LET I == {i \in 1..Len(s) : StartsWithGame(s[i])}
    IN  IF I = {} THEN << >>
        ELSE SubSeq(s, CHOOSE i \in I : \A j \in I : i <= j, Len(s))

getCurrentGameCssPath(w) ==
    IF GameCssLinks(w) = << >> THEN << >> ELSE FromFirstGamePart(Href(GameCssLinks(w)[1].path))

\* ---------------------------------------------------------------- processes
IdleCall == [screenId |-> "", pc |-> "idle", aw |-> "none", lk |-> 0, via |-> "none"]

\* the fields a game class adds to Game, for a game object that is being played
NoPlay == [kind |-> "none"]

NoInst ==
    [game |-> "", pc |-> "none", aw |-> "none", lk |-> 0, via |-> "none",
     cssPath |-> << >>, destroyed |-> FALSE, bpc |-> "none", sounds |-> {},
     play |-> NoPlay]

Settled == {"ready", "rejected"}

\* the link ids some suspended ensureCSS call still listens on
Awaited ==
    {calls[c].lk : c \in {d \in CallIds : calls[d].aw = "link"}}
      \cup {insts[c].lk : c \in {d \in CallIds : insts[d].aw = "link"}}
      \cup {ops[i].lk : i \in {j \in 1..Len(ops) : ops[j].aw = "link"}}

Task(k, c) == [k |-> k, c |-> c]

\* the continuation of process (k, c) is the next microtask
Runs(k, c) == mq # << >> /\ Head(mq) = Task(k, c)

\* a continuation whose next await is already settled queues behind the others
Queue(k, c, aw) == IF aw \in Settled THEN << Task(k, c) >> ELSE << >>

\* user events, timers, animation frames and network completions are macrotasks:
\* they run when no microtask is left
MicrotaskPending == mq # << >>

FreeCalls == {c \in CallIds : calls[c].pc = "idle"}

NextCallId == CHOOSE c \in FreeCalls : \A d \in FreeCalls : c <= d

ViaOf(w, cssPath) ==
    IF Normalize(cssPath) \in w.loadedCSS THEN "tracked"
    ELSE IF existingLink(w, Normalize(cssPath)) THEN "duplicate" ELSE "load"

\* invocation c of loadScreen has returned; App.init awaits invocation 1
Returned(c) == IF c = 1 THEN << Task("init", 0) >> ELSE << >>

Done(call) == [call EXCEPT !.pc = "done", !.aw = "none", !.lk = 0, !.via = "none"]

\* -------------------------------------------------------------- App screens
\* App.generateHomeScreen: the floors, top to bottom
generateHomeScreenMutKeyOrder == games

generateHomeScreen == Reverse(games)

InDocument(w, g) == \E i \in 1..Len(w.body.floors) : w.body.floors[i] = g

\* App.setupFloorListeners: one more click listener on every floor in the document
setupFloorListeners(w) ==
    [w EXCEPT !.body.listeners = [g \in Games |-> IF InDocument(w, g) THEN @[g] + 1 ELSE @[g]]]

\* this.screens.home = this.generateHomeScreen(); document.body.innerHTML = ...
renderHome(w) == setInnerHTML(w, "home", 0, generateHomeScreen)

homeBranchMutShows(w) == show(setupFloorListeners(renderHome(w)), App, DefaultMessage)

\* the home branch of loadScreen, and the fallback it hands to handleError
homeBranch(w) == setupFloorListeners(renderHome(w))

\* the finally block of loadScreen
removePlaceholder(w) ==
    [w EXCEPT !.body.placeholders = IF @ > 0 THEN @ - 1 ELSE 0]

finallyMutNoHide(w) == removePlaceholder(w)

finally(w) == removePlaceholder(hide(w, App))

\* loadScreen up to its first await: the placeholder and ensureCSS('style.css')
loadScreenStart(w, sid, awaited) ==
    LET w1 == [w EXCEPT !.body.placeholders = @ + 1]
        r == ensureCSS(w1, StyleCss, awaited)
    IN  [w |-> r.w,
         call |-> [screenId |-> sid, pc |-> "css1", aw |-> r.aw, lk |-> r.lk,
                   via |-> ViaOf(w1, StyleCss)]]

\* n listeners of one floor run one after the other: n invocations of loadScreen
RECURSIVE loadScreenTimes(_, _, _, _, _, _)
loadScreenTimes(w, cs, q, sid, n, awaited) ==
    IF n = 0 THEN [w |-> w, calls |-> cs, mq |-> q]
    ELSE LET free == {c \in CallIds : cs[c].pc = "idle"}
             c == CHOOSE x \in free : \A y \in free : x <= y
             r == loadScreenStart(w, sid, awaited)
         IN  loadScreenTimes(r.w, [cs EXCEPT ![c] = r.call], q \o Queue("call", c, r.call.aw),
                             sid, n - 1,
                             awaited \cup (IF r.call.aw = "link" THEN {r.call.lk} ELSE {}))

\* --------------------------------------------------------------------- Init
\* new App(): nothing loaded, the page as served, DOMContentLoaded not yet fired;
\* the build ships the helpers.js the documentation describes
Init ==
    /\ games = generatedGames
    /\ head = << >>
    /\ loadedCSS = {}
    /\ body = InitialBody
    /\ ls = [o \in Owners |-> NoLS]
    /\ popUp = [popup |-> 0, cssLoaded |-> FALSE]
    /\ reports = << >>
    /\ helpers = "documented"
    /\ initPc = "pre"
    /\ calls = [c \in CallIds |-> IdleCall]
    /\ insts = [c \in CallIds |-> NoInst]
    /\ ops = << >>
    /\ mq = << >>
    /\ location = "app"
    /\ sounds = {"commonSounds"}
    /\ timers = {}

\* ----------------------------------------------------------------- App.init
\* DOMContentLoaded: init runs to `await this.loadingScreen.show()`
DOMContentLoaded ==
    /\ initPc = "pre"
    /\ ~MicrotaskPending
    /\ Commit(show(World, App, DefaultMessage))
    /\ initPc' = "show"
    /\ UNCHANGED << games, helpers, calls, insts, ops, mq >>

\* the animation frame show() waits for; init goes on to loadScreen('home')
InitLoadHome ==
    /\ initPc = "show"
    /\ ~MicrotaskPending
    /\ LET w1 == updateProgress(updateMessage(World, App, << "world" >>), App, 1, 4)
           r == loadScreenStart(w1, Home, Awaited)
       IN  /\ Commit(r.w)
           /\ calls' = [calls EXCEPT ![1] = r.call]
           /\ mq' = Queue("call", 1, r.call.aw)
    /\ initPc' = "home"
    /\ UNCHANGED << games, helpers, insts, ops >>

\* init after `await this.loadScreen('home')`: setupFloorListeners, then hide
InitFinish(w) == hide(setupFloorListeners(w), App)

InitDone ==
    /\ Runs("init", 0)
    /\ Commit(InitFinish(World))
    /\ initPc' = "done"
    /\ mq' = Tail(mq)
    /\ UNCHANGED << games, helpers, calls, insts, ops >>

\* ------------------------------------------------------------ App.loadScreen
Resumes(c, pc) == Runs("call", c) /\ calls[c].pc = pc /\ calls[c].aw = "ready"

\* after ensureCSS('style.css'): ensureCSS('components/loadingScreen/loadingScreen.css')
LoadGlobalCss2(c) ==
    /\ Resumes(c, "css1")
    /\ LET r == ensureCSS(World, LoadingCss, Awaited)
       IN  /\ Commit(r.w)
           /\ calls' = [calls EXCEPT ![c].pc = "css2", ![c].aw = r.aw, ![c].lk = r.lk,
                                     ![c].via = ViaOf(World, LoadingCss)]
           /\ mq' = Tail(mq) \o Queue("call", c, r.aw)
    /\ UNCHANGED << games, helpers, initPc, insts, ops >>

\* screenId === 'home': render, wire the floors, return through finally
RenderHome(c) ==
    /\ Resumes(c, "css2")
    /\ calls[c].screenId = Home
    /\ Commit(finally(homeBranch(World)))
    /\ calls' = [calls EXCEPT ![c] = Done(@)]
    /\ mq' = Tail(mq) \o Returned(c)
    /\ UNCHANGED << games, helpers, initPc, insts, ops >>

\* a registered game: show the indicator, ensureCSS(style)
LoadGameCss(c) ==
    /\ Resumes(c, "css2")
    /\ calls[c].screenId \in Games
    /\ LET w1 == updateMessage(show(World, App, << "loading", calls[c].screenId >>), App,
                            << "styles" >>)
           r == ensureCSS(w1, style(calls[c].screenId), Awaited)
       IN  /\ Commit(r.w)
           /\ calls' = [calls EXCEPT ![c].pc = "gamecss", ![c].aw = r.aw, ![c].lk = r.lk,
                                     ![c].via = ViaOf(w1, style(calls[c].screenId))]
           /\ mq' = Tail(mq) \o Queue("call", c, r.aw)
    /\ UNCHANGED << games, helpers, initPc, insts, ops >>

\* the catch block of loadScreen: report, fall back to the home screen, finally
recoverMutNoFallback(w, kind, c) ==
    finally(handleError(w, kind, "app.loadScreen", Task("call", c)))

recover(w, kind, c) ==
    finally(homeBranch(handleError(w, kind, "app.loadScreen", Task("call", c))))

\* neither home nor a key of games: 'Game not found'
GameNotFound(c) ==
    /\ Resumes(c, "css2")
    /\ calls[c].screenId \notin Games \cup {Home}
    /\ Commit(recover(show(World, App, << "loading", calls[c].screenId >>), "RESOURCE", c))
    /\ calls' = [calls EXCEPT ![c] = Done(@)]
    /\ mq' = Tail(mq) \o Returned(c)
    /\ UNCHANGED << games, helpers, initPc, insts, ops >>

\* after ensureCSS(style): updateProgress(1, 2), import(script)
ImportScript(c) ==
    /\ Resumes(c, "gamecss")
    /\ Commit(updateMessage(updateProgress(World, App, 1, 2), App, << "game" >>))
    /\ calls' = [calls EXCEPT ![c].pc = "import", ![c].aw = "net", ![c].lk = 0,
                              ![c].via = "none"]
    /\ mq' = Tail(mq)
    /\ UNCHANGED << games, helpers, initPc, insts, ops >>

\* the module arrives / the import rejects
ImportSettles(c, how) ==
    /\ calls[c].pc = "import" /\ calls[c].aw = "net"
    /\ ~MicrotaskPending
    /\ calls' = [calls EXCEPT ![c].aw = how]
    /\ mq' = << Task("call", c) >>
    /\ UNCHANGED << head, loadedCSS, body, ls, popUp, reports, location, sounds, timers, games, helpers, initPc, insts, ops >>

ImportLoaded(c) == ImportSettles(c, "ready")

ImportFailed(c) == ImportSettles(c, "rejected")

\* the inner catch rethrows GAME_INITIALIZATION, the outer catch recovers
ImportRejected(c) ==
    /\ Runs("call", c) /\ calls[c].pc = "import" /\ calls[c].aw = "rejected"
    /\ Commit(recover(World, "GAME_INITIALIZATION", c))
    /\ calls' = [calls EXCEPT ![c] = Done(@)]
    /\ mq' = Tail(mq) \o Returned(c)
    /\ UNCHANGED << games, helpers, initPc, insts, ops >>

\* updateProgress(2, 2), clear the body, gameModule.startGame(): a new game object
\* runs Game.initialize to `await this.loadingScreen.show(...)`
StartGame(c) ==
    /\ Resumes(c, "import")
    /\ LET w1 == setInnerHTML(updateProgress(World, App, 2, 2), "empty", 0, << >>)
       IN  Commit(show(loadSound(w1, "popUpSounds"), c, << "game", calls[c].screenId >>))
    /\ calls' = [calls EXCEPT ![c].pc = "start", ![c].aw = "game"]
    /\ insts' = [insts EXCEPT ![c] = [NoInst EXCEPT !.game = calls[c].screenId,
                                                    !.pc = "show", !.aw = "frame"]]
    /\ mq' = Tail(mq)
    /\ UNCHANGED << games, helpers, initPc, ops >>

\* startGame has returned: the 'loaded' class, then finally
FinishGame(c) ==
    /\ Resumes(c, "start")
    /\ Commit(finally(World))
    /\ calls' = [calls EXCEPT ![c] = Done(@)]
    /\ mq' = Tail(mq) \o Returned(c)
    /\ UNCHANGED << games, helpers, initPc, insts, ops >>

\* ------------------------------------------------------------ the mini-games
\* game1 (ObjectFindingGame) fetches its images and renders after hide();
\* game2..game4 render first and have nothing to fetch.
FetchesImages(g) == g = "game1"

IResumes(c, pc) == Runs("inst", c) /\ insts[c].pc = pc /\ insts[c].aw = "ready"

\* startGame returns to the loadScreen invocation that awaits it
Return(inst) == [inst EXCEPT !.pc = "returned", !.aw = "none", !.lk = 0, !.via = "none"]

\* the animation frame LoadingScreen.show resolves on
ShowFrame(c) ==
    /\ insts[c].pc = "show" /\ insts[c].aw = "frame"
    /\ ~MicrotaskPending
    /\ insts' = [insts EXCEPT ![c].aw = "ready"]
    /\ mq' = << Task("inst", c) >>
    /\ UNCHANGED << head, loadedCSS, body, ls, popUp, reports, location, sounds, timers, games, helpers, initPc, calls, ops >>

\* Game.initialize after show: this.cssPath = getCurrentGameCssPath(); ensureCSS(it)
Initialize(c) ==
    /\ IResumes(c, "show")
    /\ LET path == getCurrentGameCssPath(World)
           w1 == IF path = << >>
                 THEN handleError(World, "RESOURCE", "helpers.getCurrentGameCssPath", Task("inst", c))
                 ELSE World
           r == IF path = << >> THEN [w |-> w1, aw |-> "ready", lk |-> 0]
                ELSE ensureCSS(w1, path, Awaited)
       IN  /\ Commit(r.w)
           /\ insts' = [insts EXCEPT ![c].pc = "initcss", ![c].aw = r.aw, ![c].lk = r.lk,
                                     ![c].cssPath = path,
                                     ![c].via = IF path = << >> THEN "none" ELSE ViaOf(w1, path)]
           /\ mq' = Tail(mq) \o Queue("inst", c, r.aw)
    /\ UNCHANGED << games, helpers, initPc, calls, ops >>

\* loadGameAssets of game1: await getGameImages('game1')
LoadGameAssets(c) ==
    /\ IResumes(c, "initcss")
    /\ FetchesImages(insts[c].game)
    /\ insts' = [insts EXCEPT ![c].pc = "assets", ![c].aw = "net", ![c].lk = 0,
                              ![c].via = "none"]
    /\ mq' = Tail(mq)
    /\ UNCHANGED << head, loadedCSS, body, ls, popUp, reports, location, sounds, timers, games, helpers, initPc, calls, ops >>

AssetsSettle(c, how) ==
    /\ insts[c].pc = "assets" /\ insts[c].aw = "net"
    /\ ~MicrotaskPending
    /\ insts' = [insts EXCEPT ![c].aw = how]
    /\ mq' = << Task("inst", c) >>
    /\ UNCHANGED << head, loadedCSS, body, ls, popUp, reports, location, sounds, timers, games, helpers, initPc, calls, ops >>

AssetsLoaded(c) == AssetsSettle(c, "ready")

AssetsFailed(c) == AssetsSettle(c, "rejected")

\* `await this.loadingScreen.hide()` of setupGameScreen
awaitHide(w, c) == IF hideSchedules(w, c) THEN "timer" ELSE "ready"

\* the fetch failed: getGameImages reports and returns [], loadGameAssets throws
\* 'No images found', the catch of startGame reports; startGame returns
AssetsRejected(c) ==
    /\ Runs("inst", c) /\ insts[c].pc = "assets" /\ insts[c].aw = "rejected"
    /\ Commit(handleError(handleError(World, "ASSET_LOADING", "helpers.getGameImages",
                                      Task("inst", c)),
                          "RESOURCE", "startGame", Task("inst", c)))
    /\ insts' = [insts EXCEPT ![c] = Return(@)]
    /\ calls' = [calls EXCEPT ![c].aw = "ready"]
    /\ mq' = Tail(mq) \o << Task("call", c) >>
    /\ UNCHANGED << games, helpers, initPc, ops >>

\* setupGameScreen of game1: updateProgress(4, 4), hide(), and only then the markup
SetupGameScreenAfterHide(c) ==
    /\ IResumes(c, "assets")
    /\ LET w1 == updateProgress(updateMessage(World, c, << "field" >>), c, 4, 4)
       IN  /\ Commit(hide(w1, c))
           /\ insts' = [insts EXCEPT ![c].pc = "hide", ![c].aw = awaitHide(w1, c)]
           /\ mq' = Tail(mq) \o Queue("inst", c, awaitHide(w1, c))
    /\ UNCHANGED << games, helpers, initPc, calls, ops >>

\* setupGameScreen of game2..game4: the markup replaces the body, then hide()
SetupGameScreen(c) ==
    /\ IResumes(c, "initcss")
    /\ ~FetchesImages(insts[c].game)
    /\ LET w1 == updateProgress(setInnerHTML(updateMessage(World, c, << "field" >>), "game", c,
                                              << >>), c, 3, 3)
       IN  /\ Commit(hide(w1, c))
           /\ insts' = [insts EXCEPT ![c].pc = "hide", ![c].aw = awaitHide(w1, c),
                                     ![c].via = "none"]
           /\ mq' = Tail(mq) \o Queue("inst", c, awaitHide(w1, c))
    /\ UNCHANGED << games, helpers, initPc, calls, ops >>

\* PopUp.loadPopUpCSS, entered from showPopup
loadPopUpCSS(w, awaited) ==
    IF w.popUp.cssLoaded THEN [w |-> w, aw |-> "ready", lk |-> 0]
    ELSE ensureCSS(w, PopUpCss, awaited)

\* the document the listeners are wired in: game1 has just rendered its own
ScreenBeforeListeners(w, c) ==
    IF FetchesImages(insts[c].game) THEN setInnerHTML(w, "game", c, << >>) ELSE w

\* setupEventListeners (the back button), then showPopup to `await this.loadPopUpCSS()`
SetupEventListeners(c) ==
    /\ IResumes(c, "hide")
    /\ LET w1 == ScreenBeforeListeners(World, c)
           w2 == loadGameSounds([w1 EXCEPT !.body.back = @ \cup {c}], insts[c].game)
           r == loadPopUpCSS(w2, Awaited)
       IN  /\ w1.body.screen.kind = "game"
           /\ Commit(r.w)
           /\ insts' = [insts EXCEPT ![c].pc = "popupcss", ![c].aw = r.aw, ![c].lk = r.lk,
                                     ![c].via = IF w2.popUp.cssLoaded THEN "none"
                                                ELSE ViaOf(w2, PopUpCss)]
           /\ mq' = Tail(mq) \o Queue("inst", c, r.aw)
    /\ UNCHANGED << games, helpers, initPc, calls, ops >>

\* the document holds no #back any more: addEventListener of null throws, the catch
\* of startGame reports 'Failed to start game'; startGame returns
SetupEventListenersThrows(c) ==
    /\ IResumes(c, "hide")
    /\ ScreenBeforeListeners(World, c).body.screen.kind # "game"
    /\ Commit(handleError(World, "GAME_INITIALIZATION", "startGame", Task("inst", c)))
    /\ insts' = [insts EXCEPT ![c] = Return(@)]
    /\ calls' = [calls EXCEPT ![c].aw = "ready"]
    /\ mq' = Tail(mq) \o << Task("call", c) >>
    /\ UNCHANGED << games, helpers, initPc, ops >>

\* PopUp.closePopup
closePopupMutKeepsElement(w) == [w EXCEPT !.popUp.popup = 0]

closePopup(w) ==
    IF w.popUp.popup # 0
    THEN [w EXCEPT !.popUp.popup = 0, !.body.popup = @ \ {w.popUp.popup}]
    ELSE w

\* showPopup after loadPopUpCSS: replace any popup by a new one and wait for its button
ShowPopup(c) ==
    /\ IResumes(c, "popupcss")
    /\ LET w1 == [World EXCEPT !.popUp.cssLoaded = TRUE]
           w2 == closePopup(w1)
       IN  Commit([w2 EXCEPT !.popUp.popup = c, !.body.popup = @ \cup {c}])
    /\ insts' = [insts EXCEPT ![c].pc = "popup", ![c].aw = "click", ![c].via = "none"]
    /\ mq' = Tail(mq)
    /\ UNCHANGED << games, helpers, initPc, calls, ops >>

\* the user presses the button of the popup on screen: closeHandler
PopupDismissed(e) ==
    /\ e \in body.popup
    /\ ~MicrotaskPending
    /\ Commit(closePopup(World))
    /\ insts' = [insts EXCEPT ![e].aw = "ready"]
    /\ mq' = << Task("inst", e) >>
    /\ UNCHANGED << games, helpers, initPc, calls, ops >>

\* showPopup resolved: startGame returns to loadScreen
StartGameReturns(c) ==
    /\ IResumes(c, "popup")
    /\ insts' = [insts EXCEPT ![c] = Return(@)]
    /\ calls' = [calls EXCEPT ![c].aw = "ready"]
    /\ mq' = Tail(mq) \o << Task("call", c) >>
    /\ UNCHANGED << head, loadedCSS, body, ls, popUp, reports, location, sounds, timers, games, helpers, initPc, ops >>

\* the setTimeout callback of LoadingScreen.hide, and whoever awaits that hide()
HideTimeout(o) ==
    /\ ls[o].isHiding
    /\ ~MicrotaskPending
    /\ Commit(hideTimeout(World, o))
    /\ LET waits == o \in CallIds /\ insts[o].aw = "timer"
       IN  /\ insts' = IF waits THEN [insts EXCEPT ![o].aw = "ready"] ELSE insts
           /\ mq' = IF waits THEN << Task("inst", o) >> ELSE << >>
    /\ UNCHANGED << games, helpers, initPc, calls, ops >>

\* ------------------------------------------------------ stylesheet link events
Loading(w, id) == \E i \in 1..Len(w.head) : w.head[i].id = id /\ w.head[i].st = "loading"

PathOf(w, id) == w.head[CHOOSE i \in 1..Len(w.head) : w.head[i].id = id].path

SetLinkState(w, id, st) ==
    [w EXCEPT !.head = [i \in 1..Len(@) |-> IF @[i].id = id THEN [@[i] EXCEPT !.st = st] ELSE @[i]]]

Wake(procs, id) ==
    [c \in DOMAIN procs |->
        IF procs[c].aw = "link" /\ procs[c].lk = id THEN [procs[c] EXCEPT !.aw = "ready"]
        ELSE procs[c]]

\* who listens on link id: a loadScreen invocation, a game object, or a direct caller
Listeners(id) ==
    [k \in {"call", "inst", "op"} |->
        IF k = "call" THEN {c \in CallIds : calls[c].aw = "link" /\ calls[c].lk = id}
        ELSE IF k = "inst" THEN {c \in CallIds : insts[c].aw = "link" /\ insts[c].lk = id}
        ELSE {i \in 1..Len(ops) : ops[i].aw = "link" /\ ops[i].lk = id}]

\* each link has the one listener that created it
ListenerTask(id) ==
    LET L == Listeners(id)
    IN  IF L["call"] # {} THEN << Task("call", CHOOSE c \in L["call"] : TRUE) >>
        ELSE IF L["inst"] # {} THEN << Task("inst", CHOOSE c \in L["inst"] : TRUE) >>
        ELSE IF L["op"] # {} THEN << Task("op", CHOOSE c \in L["op"] : TRUE) >>
        ELSE << >>

ReportedBy(id) == IF ListenerTask(id) = << >> THEN Task("none", 0) ELSE ListenerTask(id)[1]

\* link.onload: track the path, resolve
onload(w, id) ==
    [SetLinkState(w, id, "loaded") EXCEPT !.loadedCSS = @ \cup {PathOf(w, id)}]

LinkLoad(id) ==
    /\ Loading(World, id)
    /\ ~MicrotaskPending
    /\ Commit(onload(World, id))
    /\ calls' = Wake(calls, id)
    /\ insts' = Wake(insts, id)
    /\ ops' = Wake(ops, id)
    /\ mq' = ListenerTask(id)
    /\ UNCHANGED << games, helpers, initPc >>

onerrorMutSilent(w, id, by) == SetLinkState(w, id, "failed")

\* link.onerror: reject; the catch of ensureCSS reports and ensureCSS returns
onerror(w, id, by) ==
    handleError(SetLinkState(w, id, "failed"), "RESOURCE", "App.ensureCSS", by)

LinkError(id) ==
    /\ Loading(World, id)
    /\ ~MicrotaskPending
    /\ Commit(onerror(World, id, ReportedBy(id)))
    /\ calls' = Wake(calls, id)
    /\ insts' = Wake(insts, id)
    /\ ops' = Wake(ops, id)
    /\ mq' = ListenerTask(id)
    /\ UNCHANGED << games, helpers, initPc >>

\* ------------------------------------------------------------- user actions
\* a click on the floor of game g: every listener of the floor calls loadScreen(g)
FloorClick(g) ==
    /\ ~MicrotaskPending
    /\ body.screen.kind = "home"
    /\ InDocument(World, g)
    /\ body.placeholders = 0
    /\ body.listeners[g] > 0
    /\ Cardinality(FreeCalls) >= body.listeners[g]
    /\ LET r == loadScreenTimes(World, calls, << >>, g, body.listeners[g], Awaited)
       IN  /\ Commit(r.w)
           /\ calls' = r.calls
           /\ mq' = r.mq
    /\ UNCHANGED << games, helpers, initPc, insts, ops >>

RECURSIVE SortedTasks(_, _)
SortedTasks(k, S) ==
    IF S = {} THEN << >>
    ELSE LET m == CHOOSE x \in S : \A y \in S : x <= y
         IN  << Task(k, m) >> \o SortedTasks(k, S \ {m})

\* Game.destroy to `await this.loadingScreen.hide()`: the game's stylesheet is unloaded
destroyStart(w, h, c) ==
    LET w1 == unloadSounds(w, insts[c].sounds)
    IN  hide(IF insts[c].cssPath # << >> THEN unloadCSS(w1, h, insts[c].cssPath, Task("inst", c))
             ELSE w1, c)

RECURSIVE destroyAll(_, _, _)
destroyAll(w, h, S) ==
    IF S = {} THEN w
    ELSE LET m == CHOOSE x \in S : \A y \in S : x <= y
         IN  destroyAll(destroyStart(w, h, m), h, S \ {m})

\* a click on the back button: handleBackToHome of every game object wired to it runs
\* destroy to `await this.loadingScreen.hide()`
BackClick ==
    /\ ~MicrotaskPending
    /\ body.back # {}
    /\ body.popup = {}
    /\ body.placeholders = 0
    /\ \A c \in body.back : insts[c].bpc = "none" /\ ~hideSchedules(World, c)
    /\ Cardinality(FreeCalls) >= Cardinality(body.back)
    /\ Commit(destroyAll(World, helpers, body.back))
    /\ insts' = [c \in CallIds |->
                    IF c \in body.back THEN [insts[c] EXCEPT !.bpc = "b1"] ELSE insts[c]]
    /\ mq' = SortedTasks("back", body.back)
    /\ UNCHANGED << games, helpers, initPc, calls, ops >>

\* the rest of destroy (closePopup, gameStarted = false), then loadScreen('home')
BackToHome(c) ==
    /\ Runs("back", c)
    /\ insts[c].bpc = "b1"
    /\ LET r == loadScreenStart(closePopup(World), Home, Awaited)
       IN  /\ Commit(r.w)
           /\ calls' = [calls EXCEPT ![NextCallId] = r.call]
           /\ mq' = Tail(mq) \o Queue("call", NextCallId, r.call.aw)
    /\ insts' = [insts EXCEPT ![c].bpc = "done", ![c].destroyed = TRUE]
    /\ UNCHANGED << games, helpers, initPc, ops >>

\* some module calls the exported loadScreen with an identifier games has no key for,
\* while the home screen is up
LoadUnknownScreen ==
    /\ ~MicrotaskPending
    /\ initPc = "done"
    /\ body.screen.kind = "home"
    /\ body.placeholders = 0
    /\ FreeCalls # {}
    /\ \A c \in CallIds : calls[c].screenId # Unknown
    /\ LET r == loadScreenStart(World, Unknown, Awaited)
       IN  /\ Commit(r.w)
           /\ calls' = [calls EXCEPT ![NextCallId] = r.call]
           /\ mq' = Queue("call", NextCallId, r.call.aw)
    /\ UNCHANGED << games, helpers, initPc, insts, ops >>

\* ------------------------------------------- the stylesheet tracker on its own
\* App.ensureCSS and helpers.unloadCSS are exported: any module may call them with
\* any string.  The arguments tried: a game's stylesheet as the registry spells it,
\* with a leading slash, with surrounding blanks, by its file name alone, and a
\* global stylesheet, plain and between slashes.
TrackerPaths ==
    { style("game1"),
      << "/" >> \o style("game1"),
      << " " >> \o style("game1") \o << " " >>,
      << "game1", ".css" >>,
      StyleCss,
      << "/" >> \o StyleCss \o << "/" >>,
      << " ", "/" >> \o StyleCss \o << "/", " " >> }

NoOp == [op |-> "", arg |-> << >>, aw |-> "none", lk |-> 0, via |-> "none", ret |-> FALSE,
         pending |-> FALSE]

\* a link whose load the browser has not reported on matches the normalized path
LoadPending(w, cssPath) ==
    \E i \in 1..Len(w.head) :
        w.head[i].st = "loading" /\ Includes(Href(w.head[i].path), Normalize(cssPath))

\* either build of helpers.js may be the one deployed
InitCSS ==
    /\ games = generatedGames
    /\ head = << >>
    /\ loadedCSS = {}
    /\ body = InitialBody
    /\ ls = [o \in Owners |-> NoLS]
    /\ popUp = [popup |-> 0, cssLoaded |-> FALSE]
    /\ reports = << >>
    /\ helpers \in {"documented", "plain"}
    /\ initPc = "pre"
    /\ calls = [c \in CallIds |-> IdleCall]
    /\ insts = [c \in CallIds |-> NoInst]
    /\ ops = << >>
    /\ mq = << >>
    /\ location = "app"
    /\ sounds = {"commonSounds"}
    /\ timers = {}

\* a caller runs `await app.ensureCSS(p)`
TrackerEnsure(p) ==
    /\ ~MicrotaskPending
    /\ Len(ops) < MaxTrackerOps
    /\ LET r == ensureCSS(World, p, Awaited)
       IN  /\ Commit(r.w)
           /\ ops' = Append(ops, [NoOp EXCEPT !.op = "ensure", !.arg = p, !.aw = r.aw,
                                              !.lk = r.lk, !.via = ViaOf(World, p)])
           /\ mq' = Queue("op", Len(ops) + 1, r.aw)
    /\ UNCHANGED << games, helpers, initPc, calls, insts >>

\* the caller's continuation: ensureCSS has returned to it
TrackerReturn(i) ==
    /\ Runs("op", i)
    /\ ops[i].aw = "ready"
    /\ ops' = [ops EXCEPT ![i].ret = TRUE, ![i].aw = "none", ![i].lk = 0,
                          ![i].pending = LoadPending(World, ops[i].arg)]
    /\ mq' = Tail(mq)
    /\ UNCHANGED << head, loadedCSS, body, ls, popUp, reports, location, sounds, timers, games, helpers, initPc, calls, insts >>

\* a caller runs unloadCSS(p), which is synchronous
TrackerUnload(p) ==
    /\ ~MicrotaskPending
    /\ Len(ops) < MaxTrackerOps
    /\ Commit(unloadCSS(World, helpers, p, Task("op", Len(ops) + 1)))
    /\ ops' = Append(ops, [NoOp EXCEPT !.op = "unload", !.arg = p, !.ret = TRUE])
    /\ UNCHANGED << games, helpers, initPc, calls, insts, mq >>

NextCSS ==
    \/ \E p \in TrackerPaths : TrackerEnsure(p)
    \/ \E i \in 1..MaxTrackerOps : TrackerReturn(i)
    \/ \E p \in TrackerPaths : TrackerUnload(p)
    \/ \E id \in 1..(Len(head) + 1) : LinkLoad(id)
    \/ \E id \in 1..(Len(head) + 1) : LinkError(id)

SpecCSS == InitCSS /\ [][NextCSS]_vars

\* ------------------------------------------------------------ specification
\* what the program and the browser do by themselves
Browser ==
    \/ InitLoadHome
    \/ InitDone
    \/ \E c \in CallIds :
        \/ LoadGlobalCss2(c)
        \/ RenderHome(c)
        \/ LoadGameCss(c)
        \/ GameNotFound(c)
        \/ ImportScript(c)
        \/ ImportLoaded(c)
        \/ ImportFailed(c)
        \/ ImportRejected(c)
        \/ StartGame(c)
        \/ FinishGame(c)
        \/ ShowFrame(c)
        \/ Initialize(c)
        \/ LoadGameAssets(c)
        \/ AssetsLoaded(c)
        \/ AssetsFailed(c)
        \/ AssetsRejected(c)
        \/ SetupGameScreenAfterHide(c)
        \/ SetupGameScreen(c)
        \/ SetupEventListeners(c)
        \/ SetupEventListenersThrows(c)
        \/ ShowPopup(c)
        \/ StartGameReturns(c)
        \/ BackToHome(c)
    \/ \E o \in Owners : HideTimeout(o)
    \/ \E id \in 1..(Len(head) + 1) : LinkLoad(id)
    \/ \E id \in 1..(Len(head) + 1) : LinkError(id)

\* what the user (or another module, for LoadUnknownScreen) does
User ==
    \/ DOMContentLoaded
    \/ \E e \in CallIds : PopupDismissed(e)
    \/ \E g \in Games : FloorClick(g)
    \/ BackClick
    \/ LoadUnknownScreen

Next == Browser \/ User

Spec == Init /\ [][Next]_vars
\* ------------------------------------------------------------------ claims
\* the game objects whose startGame was invoked and that were not destroyed
ActiveGames == {c \in CallIds : insts[c].pc # "none" /\ ~insts[c].destroyed}

\* C1: in every reachable state at most one mini-game instance is active
\* (startGame invoked, the instance not yet destroyed).
C1_AtMostOneActiveGame == Cardinality(ActiveGames) <= 1

\* C2: whenever the home screen is rendered, every floor carries exactly one
\* click handler.
C2_OneHandlerPerFloor ==
    body.screen.kind = "home" => \A g \in Games : body.listeners[g] = 1
Report(kind, ctx, k, c) == [kind |-> kind, ctx |-> ctx, by |-> Task(k, c)]

ReportsBy(k, c) == {i \in 1..Len(reports) : reports[i].by = Task(k, c)}

InFlight == {c \in CallIds : calls[c].pc \notin {"idle", "done"}}

\* C5: when the load of a stylesheet fails during loadScreen(game), the invocation
\* does not go on to import the script and never invokes startGame.
C5_CssFailureStopsTransition ==
    \A c \in CallIds :
        (/\ calls[c].screenId \in Games
         /\ \E i \in ReportsBy("call", c) : reports[i].ctx = "App.ensureCSS") =>
            /\ calls[c].pc \notin {"import", "start"}
            /\ insts[c].pc = "none"

\* C6: when startGame has failed during its own startup and the invocation of
\* loadScreen that called it has returned, the body is not empty and every
\* loading-indicator element still attached is on its way out.
C6_FailedStartLeavesGoodScreen ==
    \A c \in CallIds :
        (/\ calls[c].pc = "done"
         /\ \E i \in ReportsBy("inst", c) : reports[i].ctx = "startGame") =>
            /\ body.screen.kind # "empty"
            /\ \A o \in body.ls : ls[o].isHiding

\* C7: the step in which an invocation of loadScreen returns has called hide on
\* App.loadingScreen (it is hiding or has no element) and leaves no placeholder in
\* the document; no placeholder is in the document once every invocation has
\* returned.
C7_FinallyHidesAndRemovesPlaceholder ==
    /\ [](InFlight = {} => body.placeholders = 0)
    /\ [][\A c \in CallIds :
            (calls[c].pc # "done" /\ calls'[c].pc = "done") =>
               /\ ls'[App].isHiding \/ ~ls'[App].element
               /\ body'.placeholders = 0]_vars

\* two invocations started by the same click have both returned
C7_Witness ==
    /\ calls[2].pc = "done"
    /\ calls[3].pc = "done"
    /\ calls[2].screenId \in Games
    /\ calls[3].screenId = calls[2].screenId
    /\ InFlight = {}
    /\ body.placeholders = 0

\* no continuation is queued and the browser owes the program nothing: no stylesheet
\* load, import or fetch is outstanding, no animation frame, no timer
BrowserIdle ==
    /\ mq = << >>
    /\ initPc # "show"
    /\ \A i \in 1..Len(head) : head[i].st # "loading"
    /\ \A c \in CallIds : calls[c].aw # "net" /\ insts[c].aw \notin {"net", "frame"}
    /\ \A o \in Owners : ~ls[o].isHiding

\* C8: when only the user can act (no continuation, stylesheet load, import, fetch,
\* animation frame or timer is outstanding), every invocation of loadScreen has
\* reached its finally block.
C8_FinalizationNeedsNoUser == BrowserIdle => InFlight = {}

\* C9: every tracked path has a link in the document head, and no path has two.
C9_TrackedMeansAttached ==
    /\ \A p \in loadedCSS : \E i \in 1..Len(head) : head[i].path = p
    /\ \A i, j \in 1..Len(head) : head[i].path = head[j].path => i = j

\* C10: a call of ensureCSS(p) that found p untracked has returned only when no
\* link matching p is still loading.
C10_EnsureReturnsAfterReport ==
    \A i \in 1..Len(ops) :
        (ops[i].op = "ensure" /\ ops[i].ret /\ ops[i].via # "tracked") => ~ops[i].pending
\* the links in head h whose href attribute is the path np
LinksFor(h, np) == {i \in 1..Len(h) : h[i].path = np}

\* this step is a direct call (ensureCSS or unloadCSS) made right after call number
\* Len(ops), with no other direct call in between
NextDirectCall == Len(ops) >= 1 /\ Len(ops') = Len(ops) + 1

\* C11: ensureCSS(p) called again after an ensureCSS(p) that attached the link and
\* saw it load: the second call changes neither the head nor the tracked set nor the
\* reports and returns without waiting; the head holds exactly one link for p and
\* the tracked set holds p.
C11_EnsureTwiceIsIdempotent ==
    [][(/\ NextDirectCall
        /\ ops[Len(ops)].op = "ensure"
        /\ ops[Len(ops)].ret
        /\ ops[Len(ops)].via = "load"
        /\ Normalize(ops[Len(ops)].arg) \in loadedCSS
        /\ ops'[Len(ops')].op = "ensure"
        /\ ops'[Len(ops')].arg = ops[Len(ops)].arg) =>
           /\ head' = head
           /\ loadedCSS' = loadedCSS
           /\ reports' = reports
           /\ ops'[Len(ops')].aw = "ready"
           /\ Cardinality(LinksFor(head', Normalize(ops[Len(ops)].arg))) = 1
           /\ Normalize(ops[Len(ops)].arg) \in loadedCSS']_vars

C11_Witness ==
    /\ Len(ops) >= 2
    /\ ops[1].op = "ensure" /\ ops[1].via = "load" /\ ops[1].ret
    /\ ops[2].op = "ensure" /\ ops[2].arg = ops[1].arg /\ ops[2].via = "tracked" /\ ops[2].ret
    /\ Normalize(ops[1].arg) \in loadedCSS
    /\ Cardinality(LinksFor(head, Normalize(ops[1].arg))) = 1
\* a link of head h matches the normalized form of path p
Matches(h, p) == \E i \in 1..Len(h) : Includes(Href(h[i].path), Normalize(p))

\* the call made right before this step was an ensureCSS(p) that attached p's link,
\* saw it load and has returned
AfterLoadOf(p) ==
    /\ NextDirectCall
    /\ ops[Len(ops)] = [NoOp EXCEPT !.op = "ensure", !.arg = p, !.via = "load", !.ret = TRUE]
    /\ Normalize(p) \in loadedCSS

\* C12: with the documented helpers, unloadCSS(p) called right after a successful
\* ensureCSS(p) leaves no link matching p in the head and the normalized form of p
\* out of the tracked set.
C12_EnsureThenUnloadRoundTrip ==
    [][\A p \in TrackerPaths :
         (/\ helpers = "documented"
          /\ AfterLoadOf(p)
          /\ ops'[Len(ops')].op = "unload"
          /\ ops'[Len(ops')].arg = p) =>
             /\ ~Matches(head', p)
             /\ Normalize(p) \notin loadedCSS']_vars
\* unloadCSS(p) of build h would find a link to remove in head hd
UnloadFinds(hd, h, p) ==
    \E i \in 1..Len(hd) : unloadMatch(Href(hd[i].path), unloadName(h, p))

\* C13: unloadCSS(p) called while no attached link matches p changes neither the
\* head nor the tracked set, reports no error and shows no banner.
C13_UnloadOfAbsentIsSilent ==
    [][\A p \in TrackerPaths :
         (/\ Len(ops') = Len(ops) + 1
          /\ ops'[Len(ops')].op = "unload"
          /\ ops'[Len(ops')].arg = p
          /\ ~UnloadFinds(head, helpers, p)) =>
             /\ head' = head
             /\ loadedCSS' = loadedCSS
             /\ reports' = reports
             /\ body'.banner = body.banner]_vars
\* a path without the blanks around it and without the slash before and after it
Bare(p) ==
    LET t == SelectSeq(p, LAMBDA x : x # " ")
        a == IF t # << >> /\ t[1] = "/" THEN 2 ELSE 1
        b == IF t # << >> /\ t[Len(t)] = "/" THEN Len(t) - 1 ELSE Len(t)
    IN  SubSeq(t, a, b)

C15_LoadFailureReportedOnce ==
    [][\A i \in 1..Len(head) :
         (/\ Len(head') = Len(head)
          /\ head[i].st = "loading"
          /\ head'[i].st = "failed"
          /\ head[i].path \notin loadedCSS) =>
             /\ reports' = Append(reports, [kind |-> "RESOURCE", ctx |-> "App.ensureCSS",
                                            by |-> ReportedBy(head[i].id)])
             /\ head[i].path \notin loadedCSS']_vars

C15_Witness ==
    \E i \in 1..Len(ops) :
        /\ ops[i].op = "ensure" /\ ops[i].via = "load" /\ ops[i].ret
        /\ Cardinality(ReportsBy("op", i)) = 1
        /\ \A j \in ReportsBy("op", i) : reports[j].kind = "RESOURCE"
        /\ Normalize(ops[i].arg) \notin loadedCSS
        /\ \E l \in LinksFor(head, Normalize(ops[i].arg)) : head[l].st = "failed"

\* the back button is live: BackClick's conditions on the page, without the bound on
\* the number of loadScreen calls
BackLive ==
    /\ ~MicrotaskPending
    /\ body.back # {}
    /\ body.popup = {}
    /\ body.placeholders = 0
    /\ \A c \in body.back : insts[c].bpc = "none" /\ ~hideSchedules(World, c)

\* C16: when the active game triggers return-home, the instance is destroyed first,
\* and destroy detaches the game's own stylesheet and removes it from the tracked
\* set before the home screen is rendered: wherever the back button is live, the
\* document that handleBackToHome's destroy leaves behind holds no link to the
\* stylesheet of the game being left, and the tracked set does not hold its path
C16_DestroyDetachesOwnStylesheet ==
    BackLive =>
        LET w == destroyAll(World, helpers, body.back)
        IN  \A c \in body.back :
                /\ ~Matches(w.head, style(insts[c].game))
                /\ Normalize(style(insts[c].game)) \notin w.loadedCSS

\* the stylesheets every transition ensures, whatever the screen
GlobalCss == {Normalize(StyleCss), Normalize(LoadingCss)}

\* the home screen is up again after a return-home, nothing is in flight and nothing
\* has ever been reported
HomeAfterReturn ==
    /\ body.screen.kind = "home"
    /\ InFlight = {}
    /\ BrowserIdle
    /\ reports = << >>
    /\ \E c \in CallIds : insts[c].bpc = "done"

\* C17: entering a game loads only that game's stylesheet, and return-home restores
\* the tracked set of before the floor click. Boot tracks the global stylesheets
\* only, so on a home screen reached by return-home the tracked set holds nothing
\* but the global stylesheets
C17_ReturnHomeRestoresTrackedSet == HomeAfterReturn => loadedCSS \subseteq GlobalCss

\* the positions of a loadScreen(game) invocation, in the order of the code:
\* placeholder and first global stylesheet, second global stylesheet, game
\* stylesheet, import, startGame, returned
GameOrder == << "idle", "css1", "css2", "gamecss", "import", "start", "done" >>

Position(pc) == CHOOSE i \in 1..Len(GameOrder) : GameOrder[i] = pc

\* the indicator of the controller shows the percentage p in the document
Displays(l, b, p) == l[App].element /\ App \in b.ls /\ l[App].progress = p

\* C18: an invocation of loadScreen(game) goes through placeholder, the two global
\* stylesheets, the game stylesheet, progress 1 of 2, the import, progress 2 of 2,
\* body cleared, startGame, in this order (it may leave for the recovery path, never
\* step back or skip), and both progress updates are displayed by the loading
\* indicator: 50% is on the page when the import starts, and 100% was written to an
\* indicator on the page when the body is cleared
C18_OrderedStepsAndDisplayedProgress ==
    [][\A c \in CallIds :
          (calls'[c].screenId \in Games /\ calls'[c].pc # calls[c].pc) =>
              /\ \/ Position(calls'[c].pc) = Position(calls[c].pc) + 1
                 \/ calls'[c].pc = "done"
              /\ calls'[c].pc = "css1" => body'.placeholders > body.placeholders
              /\ calls'[c].pc = "import" => Displays(ls', body', Percentage(1, 2))
              /\ calls'[c].pc = "start" =>
                    /\ Displays(ls, body, Percentage(1, 2))
                    /\ ls'[App].progress = Percentage(2, 2)
                    /\ body'.screen.kind = "empty"
                    /\ insts'[c].pc # "none"]_vars

\* --------------------------------------------- the home screen of any registry
\* generateGames.js writes one entry per sub-directory of games/: the registry the
\* page is built with is any list of distinct identifiers
MaxRegistry == 4

RECURSIVE SeqsUpTo(_, _)
SeqsUpTo(S, n) ==
    IF n = 0 THEN {<< >>}
    ELSE LET shorter == SeqsUpTo(S, n - 1)
         IN  shorter \cup {Append(r, g) : r \in shorter, g \in S}

Registries ==
    {r \in SeqsUpTo({GameIds[i] : i \in 1..Len(GameIds)}, MaxRegistry) :
        \A i, j \in 1..Len(r) : r[i] = r[j] => i = j}

InitHome ==
    /\ games \in Registries
    /\ head = << >>
    /\ loadedCSS = {}
    /\ body = InitialBody
    /\ ls = [o \in Owners |-> NoLS]
    /\ popUp = [popup |-> 0, cssLoaded |-> FALSE]
    /\ reports = << >>
    /\ helpers = "documented"
    /\ initPc = "pre"
    /\ calls = [c \in CallIds |-> IdleCall]
    /\ insts = [c \in CallIds |-> NoInst]
    /\ ops = << >>
    /\ mq = << >>
    /\ location = "app"
    /\ sounds = {"commonSounds"}
    /\ timers = {}

\* the home branch of loadScreen on the page as served
HomeScreen ==
    /\ body.screen.kind = "initial"
    /\ Commit(homeBranch(World))
    /\ UNCHANGED << games, helpers, initPc, calls, insts, ops, mq >>

NextHome == HomeScreen

SpecHome == InitHome /\ [][NextHome]_vars

FloorsOf(g) == {i \in 1..Len(body.floors) : body.floors[i] = g}

KeysOf(g) == {i \in 1..Len(games) : games[i] = g}

\* C19: for any registry, the rendered home screen holds exactly one floor per
\* registry entry and no other floor, and the floors are in the reverse of the
\* registry's key order: of two entries, the one that comes later in the registry
\* has its floor earlier in the document
C19_OneFloorPerEntryReversed ==
    body.screen.kind = "home" =>
        /\ \A i \in 1..Len(GameIds) :
              Cardinality(FloorsOf(GameIds[i])) = Cardinality(KeysOf(GameIds[i]))
        /\ \A i, j \in 1..Len(games) :
              i < j => \A m \in FloorsOf(games[i]), n \in FloorsOf(games[j]) : n < m

C19_Witness ==
    /\ body.screen.kind = "home"
    /\ games = << "game1", "game2", "game3" >>
    /\ body.floors = << "game3", "game2", "game1" >>

\* ------------------------------------------------ the error facility on its own
\* handleError is exported: any module may call it with any error and any fallback
MaxErrors == 2

ErrorKinds == {"ASSET_LOADING", "GAME_INITIALIZATION", "RUNTIME", "NETWORK", "RESOURCE", "UNKNOWN"}

\* the fallbacks a call site can pass: none; the one of loadScreen's catch (render
\* home, wire the floors); one that reports an error of its own; one that throws at
\* once; one that renders home and throws while wiring the floors
Fallbacks == {"none", "home", "report", "throws", "homeThrows"}

\* fallback(): the page it leaves and whether it threw
fallback(w, f, by) ==
    CASE f = "home" -> [w |-> homeBranch(w), threw |-> FALSE]
      [] f = "report" -> [w |-> handleError(w, "RUNTIME", "fallback", by), threw |-> FALSE]
      [] f = "throws" -> [w |-> w, threw |-> TRUE]
      [] f = "homeThrows" -> [w |-> renderHome(w), threw |-> TRUE]

handleErrorFallbackMutNoCatch(w, kind, ctx, by, f) ==
    IF f = "none" THEN [w |-> handleError(w, kind, ctx, by), threw |-> FALSE]
    ELSE fallback(handleError(w, kind, ctx, by), f, by)

\* handleError(error, context, fallback) as a whole: the log entry and the banner,
\* then `if (typeof fallback === 'function') try { fallback() } catch { href = '/' }`
handleErrorFallback(w, kind, ctx, by, f) ==
    LET w1 == handleError(w, kind, ctx, by)
    IN  IF f = "none" THEN [w |-> w1, threw |-> FALSE]
        ELSE LET r == fallback(w1, f, by)
             IN  [w |-> IF r.threw THEN [r.w EXCEPT !.location = "/"] ELSE r.w,
                  threw |-> FALSE]

InitErr ==
    /\ games = generatedGames
    /\ head = << >>
    /\ loadedCSS = {}
    /\ body = InitialBody
    /\ ls = [o \in Owners |-> NoLS]
    /\ popUp = [popup |-> 0, cssLoaded |-> FALSE]
    /\ reports = << >>
    /\ helpers = "documented"
    /\ initPc = "pre"
    /\ calls = [c \in CallIds |-> IdleCall]
    /\ insts = [c \in CallIds |-> NoInst]
    /\ ops = << >>
    /\ mq = << >>
    /\ location = "app"
    /\ sounds = {"commonSounds"}
    /\ timers = {}

\* a caller runs handleError(error, 'direct', fallback) on the page that is up
ReportError(kind, f) ==
    /\ location = "app"
    /\ Len(ops) < MaxErrors
    /\ LET r == handleErrorFallback(World, kind, "direct", Task("op", Len(ops) + 1), f)
       IN  /\ Commit(r.w)
           /\ ops' = Append(ops, [NoOp EXCEPT !.op = "handleError", !.arg = << kind, f >>,
                                              !.ret = ~r.threw])
    /\ UNCHANGED << games, helpers, initPc, calls, insts, mq >>

\* five seconds after a report: the callback of its timer (the timers have the
\* same delay, so they fire in the order they were armed)
BannerTimeout(t) ==
    /\ location = "app"
    /\ t \in timers
    /\ \A u \in timers : t.report <= u.report
    /\ Commit(bannerTimeout(World, t))
    /\ UNCHANGED << games, helpers, initPc, calls, insts, ops, mq >>

\* the user presses the banner's button
BannerClose ==
    /\ location = "app"
    /\ body.banner
    /\ Commit(bannerClose(World))
    /\ UNCHANGED << games, helpers, initPc, calls, insts, ops, mq >>

NextErr ==
    \/ HomeScreen
    \/ \E kind \in ErrorKinds, f \in Fallbacks : ReportError(kind, f)
    \/ \E t \in timers : BannerTimeout(t)
    \/ BannerClose

SpecErr == InitErr /\ [][NextErr]_vars

\* the step is a call handleError(kind, f)
Handles(kind, f) ==
    /\ Len(ops') = Len(ops) + 1
    /\ ops'[Len(ops')].op = "handleError"
    /\ ops'[Len(ops')].arg = << kind, f >>

\* C20: handleError logs the error and puts up the banner before it invokes the
\* fallback, invokes a supplied fallback exactly once, and when the fallback throws
\* returns normally and navigates to the application root. On every call: the
\* first new log entry is the error's; without a fallback it is the only one and
\* the banner is up; a reporting fallback adds exactly one entry after it; the
\* home fallback has replaced the body, banner included, by one home screen; a
\* throwing fallback leaves location = "/" and the call still returns; otherwise
\* the location is untouched
C20_ReportThenFallbackOnce ==
    [][\A kind \in ErrorKinds, f \in Fallbacks :
          Handles(kind, f) =>
              /\ Len(reports') > Len(reports)
              /\ SubSeq(reports', 1, Len(reports)) = reports
              /\ reports'[Len(reports) + 1].kind = kind
              /\ reports'[Len(reports) + 1].ctx = "direct"
              /\ Len(reports') = Len(reports) + (IF f = "report" THEN 2 ELSE 1)
              /\ f = "report" => reports'[Len(reports')].ctx = "fallback"
              /\ f \in {"none", "report", "throws"} => body'.banner
              /\ f = "home" => /\ body'.screen.kind = "home"
                               /\ ~body'.banner
                               /\ \A g \in Games : body'.listeners[g] = 1
              /\ f = "homeThrows" => body'.screen.kind = "home"
              /\ ops'[Len(ops')].ret
              /\ location' = (IF f \in {"throws", "homeThrows"} THEN "/" ELSE location)]_vars

C20_Witness ==
    /\ Len(ops) = 2
    /\ ops[1].op = "handleError" /\ ops[1].arg[2] = "report"
    /\ ops[2].op = "handleError" /\ ops[2].arg[2] = "throws"
    /\ Len(reports) = 3
    /\ location = "/"

\* ------------------------------------------- the loading indicator on its own
\* the methods of a LoadingScreen object called in any order, on the controller's
\* object; the document body may be replaced in between, as loadScreen does
MaxLsOps == 4

MaxLsTotal == 2

LsMessages == {DefaultMessage, << "styles" >>}

LsCall(op, arg, aw, w) ==
    /\ Len(ops) < MaxLsOps
    /\ Commit(w)
    /\ ops' = Append(ops, [NoOp EXCEPT !.op = op, !.arg = arg, !.aw = aw, !.ret = TRUE])
    /\ UNCHANGED << games, helpers, initPc, calls, insts, mq >>

LsShow(m) == LsCall("show", m, "none", show(World, App, m))

\* aw = "timer": the promise of hide() resolves in the setTimeout callback it scheduled
LsHide == LsCall("hide", << >>, awaitHide(World, App), hide(World, App))

LsUpdateMessage(m) == LsCall("updateMessage", m, "none", updateMessage(World, App, m))

LsUpdateProgress(current, total) ==
    LsCall("updateProgress", << current, total >>, "none",
           updateProgress(World, App, current, total))

\* the setTimeout callback of hide
LsTimeout ==
    /\ ls[App].isHiding
    /\ LsCall("timeout", << >>, "none", hideTimeout(World, App))

\* document.body.innerHTML = this.screens.home
LsBodyReplaced == LsCall("innerHTML", << >>, "none", renderHome(World))

NextLS ==
    \/ \E m \in LsMessages : LsShow(m)
    \/ LsHide
    \/ \E m \in LsMessages : LsUpdateMessage(m)
    \/ \E total \in 1..MaxLsTotal : \E current \in 0..total : LsUpdateProgress(current, total)
    \/ LsTimeout
    \/ LsBodyReplaced

SpecLS == Init /\ [][NextLS]_vars

\* the step is the direct call op
Calls(op) == Len(ops') = Len(ops) + 1 /\ ops'[Len(ops')].op = op

\* C21: hide() called while the indicator is hidden already, or while an earlier hide
\* is in its fade-out, changes nothing and resolves at once, without scheduling a
\* second removal; when the pending removal runs, the indicator is detached and its
\* element references are cleared, with no removal left pending
C21_HideIsIdempotent ==
    [][/\ (Calls("hide") /\ (ls[App].isHiding \/ ~ls[App].element)) =>
              /\ UNCHANGED << ls, body, head, loadedCSS, popUp, reports, location, sounds, timers >>
              /\ ops'[Len(ops')].aw = "ready"
       /\ Calls("timeout") =>
              /\ ls'[App] = NoLS
              /\ App \notin body'.ls
              /\ body'.screen = body.screen]_vars

C21_Witness ==
    /\ Len(ops) = 4
    /\ ops[1].op = "show" /\ ops[2].op = "hide" /\ ops[2].aw = "timer"
    /\ ops[3].op = "hide" /\ ops[3].aw = "ready"
    /\ ops[4].op = "timeout"
    /\ ls[App] = NoLS
    /\ App \notin body.ls

\* ------------------------------------------------ one progress or message update
\* a single updateProgress or updateMessage call, on an indicator that is shown
\* (after show(), before any hide()) or not
MaxTotal == 40

InitPct ==
    /\ games = generatedGames
    /\ head = << >>
    /\ loadedCSS = {}
    /\ \E shown \in BOOLEAN :
          /\ ls = [o \in Owners |->
                      IF o = App /\ shown
                      THEN [element |-> TRUE, isHiding |-> FALSE, progress |-> -1,
                            message |-> DefaultMessage]
                      ELSE NoLS]
          /\ body = [InitialBody EXCEPT !.ls = IF shown THEN {App} ELSE {}]
    /\ popUp = [popup |-> 0, cssLoaded |-> FALSE]
    /\ reports = << >>
    /\ helpers = "documented"
    /\ initPc = "pre"
    /\ calls = [c \in CallIds |-> IdleCall]
    /\ insts = [c \in CallIds |-> NoInst]
    /\ ops = << >>
    /\ mq = << >>
    /\ location = "app"
    /\ sounds = {"commonSounds"}
    /\ timers = {}

NextPct ==
    /\ ops = << >>
    /\ \/ \E total \in 1..MaxTotal : \E current \in 0..total : LsUpdateProgress(current, total)
       \/ \E m \in LsMessages : LsUpdateMessage(m)

SpecPct == InitPct /\ [][NextPct]_vars

\* C22: while the indicator is shown, updateProgress(current, total) displays
\* current / total * 100 rounded to the nearest integer (a half going up), for all
\* integers 0 <= current <= total, total > 0, and leaves the rest of the indicator
\* alone; while it is not shown, updateProgress and updateMessage change nothing
C22_ProgressIsRoundedPercentage ==
    [][/\ Calls("updateProgress") =>
              LET current == ops'[1].arg[1]
                  total == ops'[1].arg[2]
              IN  IF ls[App].element
                  THEN /\ ls'[App].progress = (200 * current + total) \div (2 * total)
                       /\ ls' = [ls EXCEPT ![App].progress = ls'[App].progress]
                       /\ body' = body
                  ELSE ls' = ls /\ body' = body
       /\ (Calls("updateMessage") /\ ~ls[App].element) => ls' = ls /\ body' = body]_vars

\* --------------------------------------------- the sounds of the four mini-games
\* the statements of startGame and destroy that touch the sound manager, for every
\* game class of the repository (the registry of the page may hold any of them)
AllGames == {GameIds[i] : i \in 1..Len(GameIds)}

\* `new XGame()` and its startGame up to the initial popup: the PopUp constructor
\* and startGame load their sounds
SoundStartGame(g) ==
    /\ FreeCalls # {}
    /\ Commit(loadGameSounds(loadSound(World, "popUpSounds"), g))
    /\ insts' = [insts EXCEPT ![NextCallId] = [NoInst EXCEPT !.game = g, !.pc = "popup"]]
    /\ calls' = [calls EXCEPT ![NextCallId].screenId = g, ![NextCallId].pc = "start"]
    /\ UNCHANGED << games, helpers, initPc, ops, mq >>

\* destroy of a started game, run to its end
SoundDestroy(c) ==
    /\ insts[c].pc = "popup"
    /\ ~insts[c].destroyed
    /\ Commit(closePopup(destroyStart(World, helpers, c)))
    /\ insts' = [insts EXCEPT ![c].destroyed = TRUE]
    /\ UNCHANGED << games, helpers, initPc, calls, ops, mq >>

NextSound ==
    \/ \E g \in AllGames : SoundStartGame(g)
    \/ \E c \in CallIds : SoundDestroy(c)

SpecSound == Init /\ [][NextSound]_vars

\* C23: after the destroy of a game instance has completed, every sound the
\* instance loaded during startGame has been unloaded from the sound manager
C23_DestroyUnloadsSounds ==
    \A c \in CallIds : insts[c].destroyed => GameSounds(insts[c].game) \cap sounds = {}

\* C24: loadScreen('home') never shows the loading indicator: no step of such an
\* invocation creates the indicator's element, changes its message or its progress,
\* or attaches it to the document; the invocation adds the placeholder when it
\* starts and leaves the body alone until it renders the home screen. (The
\* updateMessage and updateProgress of App.init come before its call of loadScreen
\* and are not steps of the invocation.)
C24_HomeShowsNoIndicator ==
    [][\A c \in CallIds :
          (calls'[c].screenId = Home /\ calls'[c].pc # calls[c].pc /\ initPc' = initPc) =>
              /\ ls'[App].element = ls[App].element
              /\ ls'[App].message = ls[App].message
              /\ ls'[App].progress = ls[App].progress
              /\ body'.ls \subseteq body.ls
              /\ calls'[c].pc = "css1" =>
                    body' = [body EXCEPT !.placeholders = body.placeholders + 1]
              /\ calls'[c].pc = "css2" => body' = body
              /\ calls'[c].pc = "done" => body'.screen.kind = "home" /\ body'.ls = {}]_vars

C24_Witness ==
    \E c \in CallIds :
        /\ c > 1
        /\ calls[c].screenId = Home
        /\ calls[c].pc = "done"
        /\ body.screen.kind = "home"
        /\ ~ls[App].element

\* ------------------------------------------------------- generateGames.js
\* The build step that writes gameModules/generatedGames.js.  fs.readdirSync gives
\* the names in games/ (distinct, in the order of the file system) and
\* fs.statSync(..).isDirectory() tells the sub-directories from the plain files.
MaxDir == 3

DirNames == {"game1", "game2", "game3", "notes.txt", "__proto__"}

DirContents ==
    UNION {[1..n -> [name : DirNames, isDirectory : BOOLEAN]] : n \in 0..MaxDir}

readdirSync == {d \in DirContents : \A i, j \in 1..Len(d) : d[i].name = d[j].name => i = j}

\* `cases[game] = value` on an object created by `{}`: an own property, appended to
\* the key order or overwritten in place; the key __proto__ is the accessor of
\* Object.prototype, so the assignment of an object to it replaces the prototype
\* of `cases` and creates no own property.  (No name here is an integer index,
\* which Object.keys would move to the front.)
SetProperty(cases, key, value) ==
    IF key = "__proto__" THEN [cases EXCEPT !.proto = value]
    ELSE IF \E i \in 1..Len(cases.own) : cases.own[i].key = key
         THEN [cases EXCEPT !.own =
                  [i \in 1..Len(cases.own) |->
                      IF cases.own[i].key = key THEN [key |-> key, value |-> value]
                      ELSE cases.own[i]]]
         ELSE [cases EXCEPT !.own = Append(cases.own, [key |-> key, value |-> value])]

SelectDirectories(d) == SelectSeq(d, LAMBDA file : file.isDirectory)

RECURSIVE ForEachGame(_, _)
ForEachGame(cases, dirs) ==
    IF dirs = << >> THEN cases
    ELSE ForEachGame(SetProperty(cases, Head(dirs).name,
                                 [script |-> script(Head(dirs).name),
                                  style |-> style(Head(dirs).name)]),
                     Tail(dirs))

generateGamesObject(d) ==
    ForEachGame([own |-> << >>, proto |-> "Object.prototype"], SelectDirectories(d))

\* JSON.stringify(gamesObject) writes the own enumerable properties in key order,
\* and that text is the object the application imports as `games`
WrittenEntries(d) == generateGamesObject(d).own

InitGen ==
    /\ games = << >>
    /\ head = << >>
    /\ loadedCSS = {}
    /\ body = InitialBody
    /\ ls = [o \in Owners |-> NoLS]
    /\ popUp = [popup |-> 0, cssLoaded |-> FALSE]
    /\ reports = << >>
    /\ helpers = "documented"
    /\ initPc = "pre"
    /\ calls = [c \in CallIds |-> IdleCall]
    /\ insts = [c \in CallIds |-> NoInst]
    /\ ops = << >>
    /\ mq = << >>
    /\ location = "app"
    /\ sounds = {"commonSounds"}
    /\ timers = {}

\* `node generateGames.js` in a project whose games/ directory holds d
GenerateGames(d) ==
    /\ ops = << >>
    /\ games' = [i \in 1..Len(WrittenEntries(d)) |-> WrittenEntries(d)[i].key]
    /\ ops' = << [op |-> "generateGames", arg |-> d] >>
    /\ UNCHANGED << head, loadedCSS, body, ls, popUp, reports, helpers, initPc, calls,
                    insts, mq, location, sounds, timers >>

NextGen == \E d \in readdirSync : GenerateGames(d)

SpecGen == InitGen /\ [][NextGen]_vars

EndsWith(s, t) == Len(t) <= Len(s) /\ SubSeq(s, Len(s) - Len(t) + 1, Len(s)) = t

\* C25: for any content of the games directory the written registry has exactly
\* one entry per sub-directory and none for a plain file, and the entry of
\* sub-directory n has a script path ending in games/n/n.js and the style path
\* games/n/n.css.
C25_OneEntryPerSubdirectory ==
    \A k \in 1..Len(ops) :
        ops[k].op = "generateGames" =>
            LET d == ops[k].arg
                entries == WrittenEntries(d)
            IN  /\ \A i \in 1..Len(d) :
                       Cardinality({j \in 1..Len(entries) : entries[j].key = d[i].name})
                           = IF d[i].isDirectory THEN 1 ELSE 0
                /\ \A j \in 1..Len(entries) :
                       /\ \E i \in 1..Len(d) : d[i].name = entries[j].key
                       /\ EndsWith(entries[j].value.script,
                                   << "games", "/", entries[j].key, "/", entries[j].key, ".js" >>)
                       /\ entries[j].value.style =
                              << "games", "/", entries[j].key, "/", entries[j].key, ".css" >>

\* C26: the step in which loadScreen(game) clears the body and invokes startGame
\* finds the game's stylesheet attached and loaded, also when another invocation
\* for the same game is in flight.  (Stated for the invocations whose ensureCSS
\* reported no failure; what happens after a failed load is C5.)
C26_StartOnlyAfterStylesheetLoaded ==
    [][\A c \in CallIds :
          (/\ calls[c].pc = "import"
           /\ calls'[c].pc = "start"
           /\ \A i \in ReportsBy("call", c) : reports[i].ctx # "App.ensureCSS") =>
              \E i \in 1..Len(head) :
                  /\ head[i].path = Normalize(style(calls[c].screenId))
                  /\ head[i].st = "loaded"]_vars

\* C27: once return-home has destroyed a game object and the home screen is
\* rendered, no step of that game object (a continuation or a timer of it) changes
\* the screen, the floor and back listeners, or puts a popup on the page.
C27_DestroyedInstanceIsSilent ==
    [][\A c \in CallIds :
          (/\ insts[c].destroyed
           /\ body.screen.kind = "home"
           /\ insts'[c] # insts[c]) =>
              /\ body'.screen = body.screen
              /\ body'.back = body.back
              /\ body'.popup = body.popup
              /\ popUp'.popup = popUp.popup]_vars

\* C28: the banner put up for an error report stays attached until the delay of
\* that report has elapsed or the user closes it: every call of handleError leaves
\* the banner attached, also when its fallback has run, and the only steps that
\* detach it are the timer of the report whose message it shows (the latest one)
\* and the banner's button.
C28_BannerStaysUntilDismissed ==
    [][/\ Len(reports') > Len(reports) => body'.banner
       /\ (body.banner /\ ~body'.banner) =>
              \/ \E t \in timers : t.report = Len(reports) /\ timers' = timers \ {t}
              \/ /\ UNCHANGED << timers, reports, ops >>
                 /\ body' = bannerClose(World).body]_vars

\* C29: a call show(m) leaves the indicator attached to the document with the
\* message m, also during the fade-out of an earlier hide() and after the body was
\* replaced; and the indicator is detached only by the removal that a hide() called
\* after the latest show() has scheduled.
C29_ShowAttachesUntilHide ==
    [][/\ Calls("show") =>
              /\ ls'[App].element
              /\ App \in body'.ls
              /\ ls'[App].message = ops'[Len(ops')].arg
       /\ (App \in body.ls /\ App \notin body'.ls) =>
              /\ Calls("timeout")
              /\ LET S == {i \in 1..Len(ops) : ops[i].op \in {"show", "hide"}}
                 IN  /\ S # {}
                     /\ ops[CHOOSE i \in S : \A j \in S : j <= i].op = "hide"]_vars

\* C30: a call unloadCSS(p) touches only the stylesheet whose path is the normalized
\* p: the links with another path stay attached, in order; the tracked set changes
\* in that entry at most; and no path stays tracked whose link the call detached.
C30_UnloadTouchesOnlyItsPath ==
    [][\A p \in TrackerPaths :
         (/\ Len(ops') = Len(ops) + 1
          /\ ops'[Len(ops')].op = "unload"
          /\ ops'[Len(ops')].arg = p) =>
             /\ SelectSeq(head', LAMBDA l : l.path # Normalize(p))
                    = SelectSeq(head, LAMBDA l : l.path # Normalize(p))
             /\ loadedCSS' \ {Normalize(p)} = loadedCSS \ {Normalize(p)}
             /\ \A i \in 1..Len(head) :
                    (\A j \in 1..Len(head') : head'[j].id # head[i].id) =>
                        head[i].path \notin loadedCSS']_vars

\* C31: a call ensureCSS(p) made after an ensureCSS(p) that has failed and returned
\* (its link's load error was reported) attempts the load again: it attaches a new
\* link for p and waits for the browser's report on it.
C31_EnsureRetriesAfterFailure ==
    [][\A p \in TrackerPaths :
         (/\ Len(ops') = Len(ops) + 1
          /\ ops'[Len(ops')].op = "ensure"
          /\ ops'[Len(ops')].arg = p
          /\ \E i \in 1..Len(ops) :
                /\ ops[i].op = "ensure" /\ ops[i].arg = p /\ ops[i].ret
                /\ ReportsBy("op", i) # {}
          /\ \A l \in LinksFor(head, Normalize(p)) : head[l].st = "failed") =>
             /\ ops'[Len(ops')].aw = "link"
             /\ \E l \in LinksFor(head', Normalize(p)) : head'[l].st = "loading"]_vars

\* C32: when the user dismisses the popup on screen, every caller that awaits a
\* showPopup is resumed, the callers included whose popup was replaced by a later
\* showPopup or removed by closePopup before.
C32_DismissalResumesEveryCaller ==
    [][(/\ ~MicrotaskPending
        /\ popUp.popup \in body.popup
        /\ popUp'.popup = 0
        /\ mq' = << Task("inst", popUp.popup) >>) =>
           \A c \in CallIds :
               (insts[c].pc = "popup" /\ insts[c].aw = "click") => insts'[c].aw = "ready"]_vars

\* C33: at most one popup element of the shared PopUp is attached to the document
\* at any time, and it is the one the PopUp object refers to.
C33_AtMostOnePopup ==
    /\ Cardinality(body.popup) <= 1
    /\ body.popup \subseteq {popUp.popup}

C33_Witness ==
    \E c \in CallIds :
        /\ insts[c].pc = "popup" /\ insts[c].aw = "click"
        /\ c \in body.back
        /\ popUp.popup \notin {0, c}
        /\ body.popup = {popUp.popup}

\* ------------------------------------------------- game3: the memory game
\* One MemoryGame object (game object 1) from the end of its startGame on.  The
\* sixteen cards are named by their data-index; an emoji is a number 1..8.
CARDS == << 1, 2, 3, 4, 5, 6, 7, 8, 1, 2, 3, 4, 5, 6, 7, 8 >>

\* the clicks of a run are counted through the move counter
MaxMoves == 9

\* shuffleCards: what CARDS.sort(() => Math.random() - 0.5) may leave; the order of
\* the source and one with the pairs side by side
Shuffles == {CARDS, [i \in 1..Len(CARDS) |-> (i + 1) \div 2]}

\* constructor, setupGameScreen, shuffleCards
MemoryGame(cardValues) ==
    [kind |-> "memory",
     cards |-> [i \in 1..Len(CARDS) |->
                   [emoji |-> cardValues[i], flipped |-> FALSE, match |-> FALSE,
                    mismatch |-> FALSE]],
     flippedCards |-> << >>, matchedPairs |-> 0, isLocked |-> FALSE, moves |-> 0,
     timers |-> {}, completed |-> 0, threw |-> FALSE]

handleCardClickMutNoLock(g, card) ==
    IF g.cards[card].flipped THEN g
    ELSE LET g1 == [g EXCEPT !.cards[card].flipped = TRUE, !.flippedCards = Append(@, card)]
         IN  IF Len(g1.flippedCards) = 2
             THEN [g1 EXCEPT !.timers = @ \cup {[fn |-> "checkMatch", card1 |-> 0, card2 |-> 0]}]
             ELSE g1

\* handleCardClick: the second flip locks the game and arms the 500 ms timer
handleCardClick(g, card) ==
    IF g.isLocked \/ g.cards[card].flipped \/ Len(g.flippedCards) = 2 THEN g
    ELSE LET g1 == [g EXCEPT !.cards[card].flipped = TRUE, !.flippedCards = Append(@, card)]
         IN  IF Len(g1.flippedCards) = 2
             THEN [g1 EXCEPT !.isLocked = TRUE,
                             !.timers = @ \cup {[fn |-> "checkMatch", card1 |-> 0, card2 |-> 0]}]
             ELSE g1

checkMatchMutNoCompletionTest(g) ==
    LET card1 == g.flippedCards[1]
        card2 == g.flippedCards[2]
        g1 == [g EXCEPT !.moves = @ + 1]
    IN  IF Len(g.flippedCards) < 2 THEN [g1 EXCEPT !.threw = TRUE]
        ELSE IF g.cards[card1].emoji = g.cards[card2].emoji
        THEN [g1 EXCEPT !.matchedPairs = @ + 1, !.cards[card1].match = TRUE,
                        !.cards[card2].match = TRUE, !.flippedCards = << >>,
                        !.isLocked = FALSE, !.completed = @ + 1]
        ELSE [g1 EXCEPT !.cards[card1].mismatch = TRUE, !.cards[card2].mismatch = TRUE,
                        !.timers = @ \cup {[fn |-> "flipBack", card1 |-> card1,
                                            card2 |-> card2]}]

\* checkMatch: `const [card1, card2] = this.flippedCards` and card1.dataset throw a
\* TypeError when fewer than two cards are flipped; a match that makes
\* matchedPairs equal to CARDS.length / 2 calls handleGameComplete
checkMatch(g) ==
    LET card1 == g.flippedCards[1]
        card2 == g.flippedCards[2]
        g1 == [g EXCEPT !.moves = @ + 1]
    IN  IF Len(g.flippedCards) < 2 THEN [g1 EXCEPT !.threw = TRUE]
        ELSE IF g.cards[card1].emoji = g.cards[card2].emoji
        THEN [g1 EXCEPT !.matchedPairs = @ + 1, !.cards[card1].match = TRUE,
                        !.cards[card2].match = TRUE, !.flippedCards = << >>,
                        !.isLocked = FALSE,
                        !.completed = IF g.matchedPairs + 1 = Len(CARDS) \div 2
                                      THEN @ + 1 ELSE @]
        ELSE [g1 EXCEPT !.cards[card1].mismatch = TRUE, !.cards[card2].mismatch = TRUE,
                        !.timers = @ \cup {[fn |-> "flipBack", card1 |-> card1,
                                            card2 |-> card2]}]

\* the 1000 ms timer of a mismatch
flipBack(g, t) ==
    [g EXCEPT !.cards[t.card1].flipped = FALSE, !.cards[t.card1].mismatch = FALSE,
              !.cards[t.card2].flipped = FALSE, !.cards[t.card2].mismatch = FALSE,
              !.flippedCards = << >>, !.isLocked = FALSE]

\* startGame of the memory game has run and its first popup is dismissed
MemoryStart(cardValues) ==
    /\ insts[1].pc = "none"
    /\ Commit([setInnerHTML(loadGameSounds(loadSound(World, "popUpSounds"), "game3"),
                            "game", 1, << >>)
                  EXCEPT !.body.back = {1}, !.popUp.cssLoaded = TRUE])
    /\ insts' = [insts EXCEPT ![1] = [NoInst EXCEPT !.game = "game3", !.pc = "returned",
                                                    !.play = MemoryGame(cardValues)]]
    /\ UNCHANGED << games, helpers, initPc, calls, ops, mq >>

Memory == insts[1].play

\* a click on a card of the board
CardClick(card) ==
    /\ Memory.kind = "memory"
    /\ body.popup = {}
    /\ Memory.moves < MaxMoves
    /\ ~Memory.threw
    /\ insts' = [insts EXCEPT ![1].play = handleCardClick(@, card)]
    /\ UNCHANGED << head, loadedCSS, body, ls, popUp, reports, location, sounds, timers,
                    games, helpers, initPc, calls, ops, mq >>

\* a timer of the game fires; handleGameComplete puts up its popup
MemoryTimeout(t) ==
    /\ Memory.kind = "memory"
    /\ t \in Memory.timers
    /\ ~Memory.threw
    /\ LET g == [Memory EXCEPT !.timers = @ \ {t}]
           g1 == IF t.fn = "checkMatch" THEN checkMatch(g) ELSE flipBack(g, t)
       IN  /\ insts' = [insts EXCEPT ![1].play = g1,
                                     ![1].pc = IF g1.completed > g.completed THEN "popup" ELSE @,
                                     ![1].aw = IF g1.completed > g.completed THEN "click" ELSE @]
           /\ Commit(IF g1.completed > g.completed
                     THEN [closePopup(World) EXCEPT !.popUp.popup = 1, !.body.popup = @ \cup {1}]
                     ELSE World)
    /\ UNCHANGED << games, helpers, initPc, calls, ops, mq >>

NextMemory ==
    \/ \E cardValues \in Shuffles : MemoryStart(cardValues)
    \/ \E card \in 1..Len(CARDS) : CardClick(card)
    \/ \E t \in [fn : {"checkMatch", "flipBack"}, card1 : 0..Len(CARDS), card2 : 0..Len(CARDS)] :
          MemoryTimeout(t)

SpecMemory == Init /\ [][NextMemory]_vars

\* the pair that is flipped and not resolved yet
Unresolved == Len(Memory.flippedCards) = 2

\* C34: flippedCards never holds more than two cards; from the second flip until
\* the pair is resolved the game is locked, one timer of the pair is pending and no
\* click changes anything (the only steps that change the game are that timer's);
\* the move counter changes only in checkMatch, by one, once for each pair.
C34_TwoCardsLockedUntilResolved ==
    /\ [](Memory.kind = "memory" =>
            /\ Len(Memory.flippedCards) <= 2
            /\ ~Memory.threw
            /\ Unresolved =>
                  /\ Memory.isLocked
                  /\ \/ Memory.timers = {[fn |-> "checkMatch", card1 |-> 0, card2 |-> 0]}
                     \/ /\ Memory.timers = {[fn |-> "flipBack",
                                             card1 |-> Memory.flippedCards[1],
                                             card2 |-> Memory.flippedCards[2]]}
                        /\ Memory.cards[Memory.flippedCards[1]].mismatch
            /\ ~Unresolved => (~Memory.isLocked /\ Memory.timers = {}))
    /\ [][Memory.kind = "memory" =>
            /\ (Unresolved /\ Memory' # Memory) =>
                  \E t \in Memory.timers : Memory'.timers = Memory.timers \ {t}
                                              \/ Memory'.timers = {[fn |-> "flipBack",
                                                    card1 |-> Memory.flippedCards[1],
                                                    card2 |-> Memory.flippedCards[2]]}
            /\ Memory'.moves # Memory.moves =>
                  /\ Memory'.moves = Memory.moves + 1
                  /\ Memory.timers = {[fn |-> "checkMatch", card1 |-> 0, card2 |-> 0]}
            /\ (Unresolved /\ Len(Memory'.flippedCards) = 0) =>
                  Memory'.moves = Memory.moves +
                      (IF Memory.cards[Memory.flippedCards[1]].mismatch THEN 0 ELSE 1)]_vars

C34_Witness ==
    /\ Memory.kind = "memory"
    /\ Memory.matchedPairs >= 1
    /\ Memory.moves >= 3
    /\ Unresolved
    /\ Memory.cards[Memory.flippedCards[1]].mismatch

\* C35: a matched card is never selected again; matchedPairs is the number of
\* matched pairs on the board and never exceeds 8; handleGameComplete has run once
\* when matchedPairs is 8 and not at all before.
C35_MatchedStayMatched ==
    /\ [](Memory.kind = "memory" =>
            /\ Memory.matchedPairs <= 8
            /\ 2 * Memory.matchedPairs =
                   Cardinality({i \in 1..Len(CARDS) : Memory.cards[i].match})
            /\ \A i \in 1..Len(Memory.flippedCards) :
                   ~Memory.cards[Memory.flippedCards[i]].match
            /\ \A i \in 1..Len(CARDS) : Memory.cards[i].match => Memory.cards[i].flipped
            /\ Memory.completed = (IF Memory.matchedPairs = 8 THEN 1 ELSE 0))
    /\ [][Memory.kind = "memory" =>
            /\ Memory'.matchedPairs >= Memory.matchedPairs
            /\ \A i \in 1..Len(CARDS) : Memory.cards[i].match => Memory'.cards[i].match
            /\ Memory'.completed > Memory.completed =>
                   /\ Memory.matchedPairs = 7 /\ Memory'.matchedPairs = 8
                   /\ body'.popup = {1}]_vars

C35_Witness ==
    /\ Memory.kind = "memory"
    /\ Memory.matchedPairs = 8
    /\ Memory.completed = 1
    /\ Memory.moves = 9
    /\ body.popup = {1}

\* ------------------------------------------- game4: the light-sequence game
\* One LightSequenceGame object (game object 1) from the dismissal of its first
\* popup on.  this.sequence is an array object: resetGame assigns a new one, and a
\* playback iterates the array it started on, pushes made meanwhile included.
MaxRounds == 3

MaxClicks == 3

\* the indices of this.colors the random choice and the player's clicks are taken from
ColorsTried == {0, 1}

\* constructor; the `.then` of the first showPopup has armed the 500 ms timer of
\* the first playSequence
LightSequenceGame ==
    [kind |-> "lights", sequence |-> [array |-> 1, items |-> << >>],
     playerSequence |-> << >>, level |-> 0, disabled |-> FALSE, timers |-> 1,
     playbacks |-> << >>, waiting |-> "none", arrays |-> 1, rounds |-> 0, clicks |-> 0]

\* handleButtonClick to its await of showPopup (waiting says which branch waits)
handleButtonClick(g, index) ==
    LET ps == Append(g.playerSequence, index)
        g1 == [g EXCEPT !.playerSequence = ps, !.clicks = @ + 1]
        expected == IF Len(ps) <= Len(g.sequence.items) THEN g.sequence.items[Len(ps)] ELSE -1
    IN  IF index # expected THEN [g1 EXCEPT !.waiting = "error"]
        ELSE IF Len(ps) = Len(g.sequence.items)
        THEN [g1 EXCEPT !.level = @ + 1, !.waiting = "success"]
        ELSE g1

resetGame(g) ==
    [g EXCEPT !.sequence = [array |-> g.arrays + 1, items |-> << >>], !.arrays = @ + 1,
              !.playerSequence = << >>, !.level = 0]

\* the rest of handleButtonClick once the popup is dismissed: a timer for playSequence
afterPopup(g) ==
    LET g1 == IF g.waiting = "error" THEN resetGame(g) ELSE g
    IN  [g1 EXCEPT !.waiting = "none", !.timers = @ + 1]

\* playSequence to its first await: the push, the buttons disabled, the playback begun
playSequence(g, random) ==
    [g EXCEPT !.playerSequence = << >>,
              !.sequence.items = Append(@, random),
              !.disabled = TRUE,
              !.playbacks = Append([k \in 1..Len(@) |->
                                       IF @[k].array = g.sequence.array
                                       THEN [@[k] EXCEPT !.items = Append(@, random)]
                                       ELSE @[k]],
                                   [array |-> g.sequence.array,
                                    items |-> Append(g.sequence.items, random), pos |-> 0]),
              !.timers = @ - 1, !.rounds = @ + 1]

\* one button of playback k lit and put out again; after the last one the buttons
\* are enabled
playbackStep(g, k) ==
    IF g.playbacks[k].pos + 1 < Len(g.playbacks[k].items)
    THEN [g EXCEPT !.playbacks[k].pos = @ + 1]
    ELSE [g EXCEPT !.playbacks = SubSeq(@, 1, k - 1) \o SubSeq(@, k + 1, Len(@)),
                   !.disabled = FALSE]

Lights == insts[1].play

LightsStart ==
    /\ insts[1].pc = "none"
    /\ Commit([setInnerHTML(loadGameSounds(loadSound(World, "popUpSounds"), "game4"),
                            "game", 1, << >>)
                  EXCEPT !.body.back = {1}, !.popUp.cssLoaded = TRUE])
    /\ insts' = [insts EXCEPT ![1] = [NoInst EXCEPT !.game = "game4", !.pc = "returned",
                                                    !.play = LightSequenceGame]]
    /\ UNCHANGED << games, helpers, initPc, calls, ops, mq >>

\* a click on a colour button: `if (!button.disabled) this.handleButtonClick(index)`
ButtonClick(index) ==
    /\ Lights.kind = "lights"
    /\ body.popup = {}
    /\ ~Lights.disabled
    /\ Lights.clicks < MaxClicks
    /\ LET g == handleButtonClick(Lights, index)
       IN  /\ insts' = [insts EXCEPT ![1].play = g]
           /\ Commit(IF g.waiting # "none"
                     THEN [closePopup(World) EXCEPT !.popUp.popup = 1, !.body.popup = @ \cup {1}]
                     ELSE World)
    /\ UNCHANGED << games, helpers, initPc, calls, ops, mq >>

LightsPopupDismissed ==
    /\ Lights.kind = "lights"
    /\ 1 \in body.popup
    /\ Lights.waiting # "none"
    /\ Commit(closePopup(World))
    /\ insts' = [insts EXCEPT ![1].play = afterPopup(@)]
    /\ UNCHANGED << games, helpers, initPc, calls, ops, mq >>

LightsUnchanged ==
    UNCHANGED << head, loadedCSS, body, ls, popUp, reports, location, sounds, timers,
                 games, helpers, initPc, calls, ops, mq >>

PlaySequenceTimeout(random) ==
    /\ Lights.kind = "lights"
    /\ Lights.timers > 0
    /\ Lights.rounds < MaxRounds
    /\ insts' = [insts EXCEPT ![1].play = playSequence(@, random)]
    /\ LightsUnchanged

PlaybackStep(k) ==
    /\ Lights.kind = "lights"
    /\ k \in 1..Len(Lights.playbacks)
    /\ insts' = [insts EXCEPT ![1].play = playbackStep(@, k)]
    /\ LightsUnchanged

NextLights ==
    \/ LightsStart
    \/ \E index \in ColorsTried : ButtonClick(index)
    \/ LightsPopupDismissed
    \/ \E random \in ColorsTried : PlaySequenceTimeout(random)
    \/ \E k \in 1..MaxRounds : PlaybackStep(k)

SpecLights == Init /\ [][NextLights]_vars

\* C36: a colour-button click is accepted only when the playback of the current
\* sequence has finished (none is running or still to come) and the sequence has
\* length level + 1; and at most one playback runs at any time.
C36_InputOnlyAfterPlayback ==
    /\ [](Lights.kind = "lights" => Len(Lights.playbacks) <= 1)
    /\ [][(Lights.kind = "lights" /\ Lights'.clicks > Lights.clicks) =>
             /\ Lights.playbacks = << >>
             /\ Lights.timers = 0
             /\ Len(Lights.sequence.items) = Lights.level + 1]_vars

\* ------------------------------------------ game1: the object-finding game
\* One ObjectFindingGame object (game object 1) from the dismissal of its first
\* popup on.  `running` is the browser's set of live interval timers, timerInterval
\* the id the object remembers; `waiting` is what the handler that awaits the popup
\* on screen does once it is dismissed.
MaxRetries == 2

\* the ids of the pictures, one of which is the target
Objects == {"ball", "car"}

clearInterval(g) == [g EXCEPT !.running = @ \ {g.timerInterval}]

startTimer(g) ==
    LET g1 == IF g.timerInterval # 0 THEN clearInterval(g) ELSE g
    IN  [g1 EXCEPT !.timerInterval = g.timerInterval + 1, !.running = @ \cup {g.timerInterval + 1}]

\* constructor, and the end of startGame: gameStarted = true, startTimer()
ObjectFindingGame(target) ==
    startTimer([kind |-> "finder", attempts |-> 3, timeLeft |-> 20, timerInterval |-> 0,
                running |-> {}, targetObject |-> target, popUpState |-> "INITIAL_GAME",
                gameStarted |-> TRUE, waiting |-> "none", rounds |-> 0])

\* handleObjectClick to its await of showPopup
handleObjectClick(g, objectId) ==
    IF ~g.gameStarted THEN g
    ELSE IF objectId = g.targetObject
    THEN [clearInterval(g) EXCEPT !.popUpState = "GAME_WON", !.waiting = "retry"]
    ELSE IF g.attempts - 1 = 0
    THEN [clearInterval(g) EXCEPT !.attempts = 0, !.popUpState = "GAME_LOST", !.waiting = "retry"]
    ELSE [g EXCEPT !.attempts = @ - 1, !.waiting = "mistake"]

retryGame(g, target) ==
    startTimer([g EXCEPT !.attempts = 3, !.timeLeft = 20, !.gameStarted = TRUE,
                         !.targetObject = target, !.waiting = "none", !.rounds = @ + 1])

timerTickMutKeepsTicking(g) ==
    IF g.timeLeft - 1 = 0
    THEN [g EXCEPT !.timeLeft = 0, !.popUpState = "TIME_EXPIRED", !.waiting = "retry"]
    ELSE [g EXCEPT !.timeLeft = @ - 1]

\* the setInterval callback to its await of showPopup
timerTick(g) ==
    IF g.timeLeft - 1 = 0
    THEN [clearInterval(g) EXCEPT !.timeLeft = 0, !.popUpState = "TIME_EXPIRED",
                                  !.waiting = "retry"]
    ELSE [g EXCEPT !.timeLeft = @ - 1]

\* showPopup with the popup stylesheet loaded: the popup on screen is replaced
showPopupNow(w) == [closePopup(w) EXCEPT !.popUp.popup = 1, !.body.popup = @ \cup {1}]

Finder == insts[1].play

FinderStart(target) ==
    /\ insts[1].pc = "none"
    /\ Commit([setInnerHTML(loadGameSounds(loadSound(World, "popUpSounds"), "game1"),
                            "game", 1, << >>)
                  EXCEPT !.body.back = {1}, !.popUp.cssLoaded = TRUE])
    /\ insts' = [insts EXCEPT ![1] = [NoInst EXCEPT !.game = "game1", !.pc = "returned",
                                                    !.play = ObjectFindingGame(target)]]
    /\ UNCHANGED << games, helpers, initPc, calls, ops, mq >>

\* a click on a picture
ObjectClick(objectId) ==
    /\ Finder.kind = "finder"
    /\ body.popup = {}
    /\ LET g == handleObjectClick(Finder, objectId)
       IN  /\ insts' = [insts EXCEPT ![1].play = g]
           /\ Commit(IF g.waiting # "none" THEN showPopupNow(World) ELSE World)
    /\ UNCHANGED << games, helpers, initPc, calls, ops, mq >>

\* one firing of interval timer id
TimerTick(id) ==
    /\ Finder.kind = "finder"
    /\ id \in Finder.running
    /\ LET g == timerTick(Finder)
       IN  /\ insts' = [insts EXCEPT ![1].play = g]
           /\ Commit(IF g.timeLeft = 0 THEN showPopupNow(World) ELSE World)
    /\ UNCHANGED << games, helpers, initPc, calls, ops, mq >>

\* the popup's button: closePopup, then the awaiting handler goes on
FinderPopupDismissed(target) ==
    /\ Finder.kind = "finder"
    /\ 1 \in body.popup
    /\ Finder.waiting = "retry" => Finder.rounds < MaxRetries
    /\ Commit(closePopup(World))
    /\ insts' = [insts EXCEPT ![1].play = IF @.waiting = "retry" THEN retryGame(@, target)
                                          ELSE [@ EXCEPT !.waiting = "none"]]
    /\ UNCHANGED << games, helpers, initPc, calls, ops, mq >>

NextFinder ==
    \/ \E target \in Objects : FinderStart(target)
    \/ \E objectId \in Objects : ObjectClick(objectId)
    \/ \E id \in 1..(MaxRetries + 1) : TimerTick(id)
    \/ \E target \in Objects : FinderPopupDismissed(target)

SpecFinder == Init /\ [][NextFinder]_vars

RoundOver == Finder.attempts = 0 \/ Finder.timeLeft = 0

====
